---- MODULE Spec2Model ----
(***************************************************************************)
(* Verification model of fast-job-agent: the concurrent fetch orchestrator *)
(* (base_scraper.py), the platform adapters (ashby_scraper.py,             *)
(* greenhouse_scraper.py), the location classifier (location_filter.py),   *)
(* the merge engine (data_processor_pandas.py), the record sync            *)
(* (notion_sync.py) and the aggregator (job_aggregator.py).                *)
(*                                                                         *)
(* Strings are TLA+ strings handled character by character (SubSeq, Len,   *)
(* \o), so lower-casing, trimming, ordering, joining and the regular       *)
(* expressions are computed as Python computes them.                       *)
(***************************************************************************)
EXTENDS Integers, Sequences, FiniteSets, TLC

VARIABLES
    impl,        \* the scraper class whose scrape_all runs: "Ashby", "Greenhouse" or "Subclass"
    companies,   \* self.companies: the configuration entry of every organization
    sem,         \* the value of the asyncio.Semaphore of scrape_all
    task,        \* per organization: the state of its scrape_with_semaphore task
    ret,         \* what scrape_all returned
    cache,       \* _location_filter._cache: lower-cased trimmed location -> verdict
    last_api_call, \* _location_filter._last_api_call, in tenths of a second
    now,         \* time.time(), in tenths of a second
    api_calls,   \* the geocoding requests made so far: the issue time and the location key
    caller,      \* per task that calls the async is_us_location: where it stands
    last_return, \* the latest classifier call that returned: which classifier, the step that
                 \* decided, the location, the verdict and what the geocoding service answered
    wall_clock,  \* datetime.now(): the proleptic ordinal of the day and the second of the day
    scraped_jobs, \* the postings the scrapers handed to the JobDataProcessor
    merged,      \* the runs of merge_and_deduplicate so far: the results of the steps, the cache left
    dated_jobs,  \* the argument of a call of filter_recent_jobs
    recent,      \* what that call returned
    adapters,    \* the scraper modules and classes that scraper_factory.py imports
    main,        \* job_aggregator.main: where it stands, what the scrape_all of each
                 \* platform gave, what was handed to the merge, the exit status
    synced_jobs, \* NotionSync.synced_jobs: the derived ids of the postings known synced
    sync_cache_file, \* the ids in synced_jobs.json, which _save_synced_jobs writes
    pages,       \* the Notion database: per job link, the pages created with it
    sync_calls,  \* the calls of sync_jobs made so far
    sync_stats,  \* the counters that the latest sync_jobs returned
    sync_log     \* the argument of the latest sync_jobs and, for each posting that it
                 \* processed, the Notion requests made for it and the counter it got

scrapeVars == <<impl, companies, sem, task, ret>>
geoVars == <<cache, last_api_call, now, api_calls, caller, last_return>>
mergeVars == <<wall_clock, scraped_jobs, merged>>
recencyVars == <<dated_jobs, recent>>
runVars == <<adapters, main>>
syncVars == <<synced_jobs, sync_cache_file, pages, sync_calls, sync_stats, sync_log>>
dataVars == <<mergeVars, recencyVars, runVars, syncVars>>

(***************************************************************************)
(* Bounds of the model.                                                    *)
(***************************************************************************)
NumCompanies == 3      \* organizations configured for one scraper
MaxConcurrent == 2     \* the max_concurrent argument of scrape_all
MaxPostings == 1       \* postings in one platform payload
NumCallers == 2        \* concurrent tasks that call the async classifier
MaxApiCalls == 3       \* geocoding requests issued in one run
MaxTicks == 13         \* tenths of a second that the clock advances in one run
MaxRequestTicks == 1   \* tenths of a second that one geocoding request may block
ProcessStart == 11     \* time.time() when the process starts, in tenths of a second

(***************************************************************************)
(* Characters and Python's str operations.                                 *)
(***************************************************************************)
\* the characters the model uses, in code point order
Alphabet == " ,-/0123456789:;ABCDEFGHIJKLMNOPQRSTUVWXYZ_abcdefghijklmnopqrstuvwxyz|"

CharAt(s, i) == SubSeq(s, i, i)

Chars == {CharAt(Alphabet, i) : i \in 1..Len(Alphabet)}

\* the rank of every character, computed once
OrdTable == [c \in Chars |-> CHOOSE i \in 1..Len(Alphabet) : CharAt(Alphabet, i) = c]

\* Python's ord(c), up to the gaps between the characters of Alphabet
Ord(c) == OrdTable[c]

FirstUpper == Ord("A")
FirstLower == Ord("a")

IsUpper(c) == Ord(c) >= FirstUpper /\ Ord(c) < FirstUpper + 26

\* str.lower() on one character
LowerChar(c) == IF IsUpper(c) THEN CharAt(Alphabet, Ord(c) - FirstUpper + FirstLower) ELSE c

RECURSIVE lower(_)
\* str.lower()
lower(s) == IF s = "" THEN "" ELSE LowerChar(Head(s)) \o lower(Tail(s))

IsSpace(c) == c = " "

RECURSIVE lstrip(_)
lstrip(s) == IF s # "" /\ IsSpace(Head(s)) THEN lstrip(Tail(s)) ELSE s

RECURSIVE rstrip(_)
rstrip(s) ==
    IF s # "" /\ IsSpace(CharAt(s, Len(s))) THEN rstrip(SubSeq(s, 1, Len(s) - 1)) ELSE s

\* str.strip()
strip(s) == rstrip(lstrip(s))

\* s[i:] starts with p
StartsWithAt(s, i, p) == i + Len(p) - 1 <= Len(s) /\ SubSeq(s, i, i + Len(p) - 1) = p

\* Python's "sub in s"
Contains(s, sub) == \E i \in 1..(Len(s) + 1) : StartsWithAt(s, i, sub)

RECURSIVE StrLess(_, _)
\* Python's s < t on str: lexicographic by code point
StrLess(s, t) ==
    IF t = "" THEN FALSE
    ELSE IF s = "" THEN TRUE
    ELSE IF Head(s) = Head(t) THEN StrLess(Tail(s), Tail(t))
    ELSE Ord(Head(s)) < Ord(Head(t))

\* regular expression \w (ASCII letters of a lower-cased string, digits, _)
IsWordChar(c) ==
    \/ Ord(c) >= Ord("0") /\ Ord(c) <= Ord("9")
    \/ Ord(c) >= Ord("A") /\ Ord(c) <= Ord("z")


(***************************************************************************)
(* location_filter.py: the pattern tables and re.search on them.           *)
(***************************************************************************)
\* regular expression \b at the left of position i (a word starts at i)
WordStartsAt(s, i) == i = 1 \/ ~IsWordChar(CharAt(s, i - 1))

\* regular expression \b at the right of position j (a word ends at j)
WordEndsAt(s, j) == j = Len(s) \/ ~IsWordChar(CharAt(s, j + 1))

\* re.search(r'\b(w1|w2|...)\b', s) for the alternatives in words
SearchWord(s, words) ==
    \E w \in words : \E i \in 1..Len(s) :
        /\ StartsWithAt(s, i, w)
        /\ WordStartsAt(s, i)
        /\ WordEndsAt(s, i + Len(w) - 1)

RECURSIVE SkipSpaces(_, _)
\* the position after \s* matched greedily from position i
SkipSpaces(s, i) == IF i <= Len(s) /\ IsSpace(CharAt(s, i)) THEN SkipSpaces(s, i + 1) ELSE i

RemoteCountries == {"canada", "singapore", "india", "uk", "europe", "asia", "latam"}

\* re.search(r'remote\s*-\s*(canada|singapore|india|uk|europe|asia|latam)', s)
SearchRemoteCountry(s) ==
    \E i \in 1..Len(s) :
        /\ StartsWithAt(s, i, "remote")
        /\ LET d == SkipSpaces(s, i + 6)
           IN  /\ StartsWithAt(s, d, "-")
               /\ \E c \in RemoteCountries : StartsWithAt(s, SkipSpaces(s, d + 1), c)

\* re.search(r'^remote$|^us\s*-?\s*remote$', s)
SearchPureRemote(s) ==
    \/ s = "remote"
    \/ /\ StartsWithAt(s, 1, "us")
       /\ LET d == SkipSpaces(s, 3)
              e == IF StartsWithAt(s, d, "-") THEN SkipSpaces(s, d + 1) ELSE d
          IN  \* "-?" may also match nothing when a "-" is present: then "remote" must start at d
              \/ SubSeq(s, e, Len(s)) = "remote"
              \/ SubSeq(s, d, Len(s)) = "remote"

StateCodes ==
    {"al", "ak", "az", "ar", "ca", "co", "ct", "de", "fl", "ga", "hi", "id", "il", "in",
     "ia", "ks", "ky", "la", "me", "md", "ma", "mi", "mn", "ms", "mo", "mt", "ne", "nv",
     "nh", "nj", "nm", "ny", "nc", "nd", "oh", "ok", "or", "pa", "ri", "sc", "sd", "tn",
     "tx", "ut", "vt", "va", "wa", "wv", "wi", "wy"}

\* re.search(r'\b\w+,\s*(al|ak|...|wy)\b', s)
SearchCityState(s) ==
    \E i \in 2..Len(s) :
        /\ CharAt(s, i) = ","
        /\ IsWordChar(CharAt(s, i - 1))
        /\ \E c \in StateCodes :
              LET d == SkipSpaces(s, i + 1)
              IN  StartsWithAt(s, d, c) /\ WordEndsAt(s, d + 1)

UsCities == {"new york", "san francisco", "los angeles", "chicago", "boston", "seattle",
             "austin", "denver", "atlanta", "miami"}
UsStates == {"california", "texas", "florida", "new york", "washington"}
UsAreas == {"silicon valley", "bay area", "nyc", "sf"}
UsNames == {"usa", "united states"}

NonUsUk == {"london", "uk", "united kingdom", "england", "britain"}
NonUsCountries == {"singapore", "germany", "france", "canada", "australia", "japan",
                   "china", "india", "brazil", "korea"}
\* the source also lists the accented spelling of sao paulo, a character outside Alphabet
NonUsCities == {"toronto", "vancouver", "sydney", "melbourne", "tokyo", "beijing", "mumbai",
                "bangalore", "bengaluru", "pune", "chennai", "hyderabad", "delhi", "kolkata",
                "sao paulo", "seoul"}
NonUsCountries2 == {"mexico", "argentina", "chile", "colombia", "peru", "spain", "italy",
                    "netherlands", "poland", "sweden"}
NonUsCities2 == {"dublin", "paris", "berlin", "amsterdam", "stockholm", "madrid", "rome",
                 "warsaw"}

\* some pattern of self.non_us_patterns is found in s
non_us_patterns(s) ==
    \/ SearchRemoteCountry(s)
    \/ SearchWord(s, NonUsUk)
    \/ SearchWord(s, NonUsCountries)
    \/ SearchWord(s, NonUsCities)
    \/ SearchWord(s, NonUsCountries2)
    \/ SearchWord(s, NonUsCities2)

\* some pattern of self.us_patterns is found in s
us_patterns(s) ==
    \/ SearchPureRemote(s)
    \/ SearchCityState(s)
    \/ SearchWord(s, UsCities)
    \/ SearchWord(s, UsStates)
    \/ SearchWord(s, UsAreas)
    \/ SearchWord(s, UsNames)

\* LocationFilter._pattern_match: "false", "true" or "none"
PatternMatchSearchUsFirst(location_lower) ==
    IF us_patterns(location_lower) THEN "true"
    ELSE IF non_us_patterns(location_lower) THEN "false"
    ELSE "none"

\* LocationFilter._pattern_match: the non-US patterns are searched first
PatternMatchSearch(location_lower) ==
    IF non_us_patterns(location_lower) THEN "false"
    ELSE IF us_patterns(location_lower) THEN "true"
    ELSE "none"


(***************************************************************************)
(* Results of calls: a call returns a value or raises an exception.        *)
(***************************************************************************)
Return(v) == [kind |-> "return", value |-> v, exc |-> "none"]
Raise(e) == [kind |-> "raise", value |-> <<>>, exc |-> e]

\* with_error_handling(default_return, reraise=True): the exception is raised again
async_wrapper_reraise(r, default_return) == r

\* decorators.py async_wrapper with reraise=False: asyncio.TimeoutError and every other
\* Exception of the wrapped coroutine are turned into default_return
async_wrapper(r, default_return) ==
    IF r.kind = "raise" THEN Return(default_return) ELSE r

(***************************************************************************)
(* config.py FDE_KEYWORDS and AsyncBaseScraper._filter_fde_jobs.           *)
(***************************************************************************)
FDE_KEYWORDS ==
    {"forward deployed engineer", "forward deployed", "customer engineer",
     "solutions engineer", "solution engineer", "forward deployment engineer",
     "forward deployed ai engineer", "field engineer", "technical account manager",
     "customer success engineer", "implementation engineer", "deployment engineer",
     "ai engineer", "genai engineer", "ai developer", "machine learning engineer",
     "agent engineer", "software engineer", "full stack engineer", "backend engineer",
     "frontend engineer", "product engineer"}

\* any(keyword in title_lower for keyword in fde_keywords)
IsFdeTitle(title) == \E k \in FDE_KEYWORDS : Contains(lower(title), k)

filter_fde_jobs(jobs) == SelectSeq(jobs, LAMBDA j : IsFdeTitle(j.title))

(***************************************************************************)
(* The raw postings of a platform payload and their normalisation.         *)
(***************************************************************************)
\* str.split('T')[0]
RECURSIVE SplitT0(_)
SplitT0(s) == IF s = "" \/ Head(s) = "T" THEN "" ELSE Head(s) \o SplitT0(Tail(s))

RawJobs ==
    { [id |-> "j1", title |-> "Forward Deployed Engineer", location |-> "Remote",
       date |-> "2026-10-01T09:00:00", url |-> "https://gh/j1"],
      [id |-> "j2", title |-> "Solutions Engineer", location |-> "London, UK",
       date |-> "2026-10-02T09:00:00", url |-> "https://gh/j2"],
      [id |-> "j3", title |-> "Office Manager", location |-> "Austin, TX",
       date |-> "", url |-> "https://gh/j3"] }

\* AsyncBaseScraper.create_job_dict followed by the update of AsyncAshbyScraper.scrape_company
AshbyJob(job, company) ==
    [role_name |-> job.title,
     company_name |-> company.name,
     location |-> job.location,
     job_link |-> "https://jobs.ashbyhq.com/" \o company.slug \o "/" \o job.id,
     employment_type |-> "FullTime",
     team |-> "",
     published_date |-> job.date,
     compensation |-> "Not disclosed",
     source |-> "Ashby",
     job_id |-> job.id]

\* AsyncBaseScraper.create_job_dict followed by the update of AsyncGreenhouseScraper.scrape_company
GreenhouseJob(job, company) ==
    [role_name |-> job.title,
     company_name |-> company.name,
     location |-> job.location,
     job_link |-> job.url,
     employment_type |-> "FullTime",
     team |-> "",
     published_date |-> IF job.date # "" THEN SplitT0(job.date) ELSE "",
     compensation |-> "Not disclosed",
     source |-> "Greenhouse",
     job_id |-> job.id]

FormatJobs(platform, jobs, company) ==
    [i \in 1..Len(jobs) |->
        IF platform = "Ashby" THEN AshbyJob(jobs[i], company) ELSE GreenhouseJob(jobs[i], company)]


(***************************************************************************)
(* The adapters: AsyncAshbyScraper.scrape_company and                      *)
(* AsyncGreenhouseScraper.scrape_company.                                  *)
(***************************************************************************)
\* what a call of an "async def" function evaluates to when it is not awaited
Coroutine == [kind |-> "coroutine"]

\* "us_jobs, stats = obj": a coroutine object is not iterable
UnpackFirst(obj) ==
    IF obj.kind = "coroutine" THEN Raise("TypeError") ELSE Return(obj.value[1])

Payloads == UNION {[1..n -> RawJobs] : n \in 0..MaxPostings}

NoResponse == [net |-> "none", status |-> 0, body |-> "none", postings |-> <<>>]

Responses ==
         [net : {"conn_error", "timeout"}, status : {0}, body : {"none"}, postings : {<<>>}]
    \cup [net : {"ok"}, status : {404}, body : {"none"}, postings : {<<>>}]
    \cup [net : {"ok"}, status : {200}, body : {"no_appdata", "bad_json"}, postings : {<<>>}]
    \cup [net : {"ok"}, status : {200}, body : {"ok"}, postings : Payloads]

\* the body of scrape_company, before the decorator
scrape_company_body(platform, company, resp) ==
    IF ~company.has_slug THEN Raise("KeyError")
    ELSE IF resp.net = "conn_error" THEN Raise("ClientError")
    ELSE IF resp.net = "timeout" THEN Raise("TimeoutError")
    ELSE IF resp.status # 200 THEN Return(<<>>)
    ELSE IF resp.body = "bad_json" /\ platform = "Greenhouse" THEN Raise("JSONDecodeError")
    ELSE IF resp.body # "ok" THEN Return(<<>>)
    ELSE LET fde_jobs == filter_fde_jobs(resp.postings)
             formatted_jobs == FormatJobs(platform, fde_jobs, company)
         IN  \* self.filter_and_collect_stats(formatted_jobs, company['name']) without await
             UnpackFirst(Coroutine)

\* @with_error_handling(default_return=[]) async def scrape_company
scrape_company(platform, company, resp) ==
    async_wrapper(scrape_company_body(platform, company, resp), <<>>)

\* the failures of a response or configuration entry
IsFailure(company, resp) ==
    ~company.has_slug \/ resp.net # "ok" \/ resp.status # 200 \/ resp.body # "ok"

(***************************************************************************)
(* AsyncBaseScraper.scrape_all.                                            *)
(***************************************************************************)
Companies == 1..Len(companies)

\* "async with semaphore" lets every caller in
SemaphoreFree(value) == TRUE

\* asyncio.Semaphore(max_concurrent): "async with semaphore" enters when the value is positive
SemaphoreOpen(value) == value > 0

\* scrape_with_semaphore without its try/except
scrape_with_semaphore_nocatch(r) == r

\* scrape_with_semaphore: "except Exception" turns a raise of scrape_company into []
scrape_with_semaphore(r) == IF r.kind = "raise" THEN Return(<<>>) ELSE r

RECURSIVE Flatten(_)
\* the loop over the results of asyncio.gather(*tasks, return_exceptions=True)
Flatten(results) ==
    IF results = <<>> THEN <<>>
    ELSE IF Head(results).kind = "raise" THEN Flatten(Tail(results))
    ELSE Head(results).value \o Flatten(Tail(results))

NotReturned == [kind |-> "pending", value |-> <<>>, exc |-> "none"]

\* a task of scrape_all: where it stands, the answer its scrape_company got, what
\* scrape_company and the task returned, and its rank among the tasks that have settled
\* (kept for the scrapers whose tasks can return different lists, 0 for the others)
NewTask ==
    [pc |-> "pending", resp |-> NoResponse, inner |-> NotReturned, result |-> NotReturned,
     seq |-> 0]

RECURSIVE AsCompleted(_, _)
\* the results of the tasks in the order in which the tasks settled
AsCompleted(tasks, k) ==
    IF k > Len(tasks) THEN <<>>
    ELSE LET c == CHOOSE d \in 1..Len(tasks) : tasks[d].seq \in {0, k}
         IN  <<tasks[c].result>> \o AsCompleted(tasks, k + 1)

\* the results in the order of completion
gather_as_completed(tasks) == AsCompleted(tasks, 1)

\* await asyncio.gather(*tasks, return_exceptions=True): the results of the tasks in the
\* order of the tasks, which is the order of self.companies
gather(tasks) == [c \in 1..Len(tasks) |-> tasks[c].result]

ConfigEntry(c, has_slug) ==
    [name |-> "Co" \o CharAt("123456789", c), slug |-> "co" \o CharAt("123456789", c),
     has_slug |-> has_slug]

\* the lists a scrape_company of any subclass may return
SubclassJobs ==
    LET co == ConfigEntry(1, TRUE)
    IN  {<<>>} \cup {<<AshbyJob(j, co)>> : j \in RawJobs}

InitScrape ==
    /\ impl \in {"Ashby", "Greenhouse", "Subclass"}
    /\ \E n \in {0, NumCompanies} : \E bad \in 0..n :
          companies = [c \in 1..n |-> ConfigEntry(c, c # bad)]
    /\ sem = MaxConcurrent
    /\ task = [c \in Companies |-> NewTask]
    /\ ret = NotReturned

\* a task enters "async with semaphore" and calls scrape_company
Acquire(c) ==
    /\ ret.kind = "pending"
    /\ task[c].pc = "pending"
    /\ SemaphoreOpen(sem)
    /\ sem' = sem - 1
    /\ task' = [task EXCEPT ![c].pc = "running"]
    /\ UNCHANGED <<impl, companies, ret>>
    /\ UNCHANGED <<geoVars, dataVars>>

\* a task that settles and keeps its permit
SettleKeepsPermit(c, resp, r) ==
    /\ task' = [task EXCEPT ![c] = [pc |-> "done", resp |-> resp, inner |-> r,
                                   result |-> scrape_with_semaphore(r),
                                   seq |-> IF impl = "Subclass"
                                           THEN 1 + Cardinality({d \in Companies :
                                                                    task[d].pc = "done"})
                                           ELSE 0]]
    /\ sem' = sem
    /\ UNCHANGED <<impl, companies, ret>>
    /\ UNCHANGED <<geoVars, dataVars>>

\* scrape_company has finished with r: the task settles and leaves "async with semaphore"
Settle(c, resp, r) ==
    /\ task' = [task EXCEPT ![c] = [pc |-> "done", resp |-> resp, inner |-> r,
                                   result |-> scrape_with_semaphore(r),
                                   seq |-> IF impl = "Subclass"
                                           THEN 1 + Cardinality({d \in Companies :
                                                                    task[d].pc = "done"})
                                           ELSE 0]]
    /\ sem' = sem + 1
    /\ UNCHANGED <<impl, companies, ret>>
    /\ UNCHANGED <<geoVars, dataVars>>

\* the scrape_company of the Ashby or Greenhouse adapter answers
AdapterReturns(c) ==
    /\ impl \in {"Ashby", "Greenhouse"}
    /\ task[c].pc = "running"
    /\ \E resp \in Responses :
          /\ impl = "Greenhouse" => resp.body # "no_appdata"
          /\ Settle(c, resp, scrape_company(impl, companies[c], resp))

\* the scrape_company of some other subclass returns a list
SubclassReturns(c) ==
    /\ impl = "Subclass"
    /\ task[c].pc = "running"
    /\ \E jobs \in SubclassJobs : Settle(c, NoResponse, Return(jobs))

\* the scrape_company of some other subclass raises or times out
SubclassRaises(c) ==
    /\ impl = "Subclass"
    /\ task[c].pc = "running"
    /\ \E e \in {"Exception", "TimeoutError"} : Settle(c, NoResponse, Raise(e))

\* asyncio.gather has every result: scrape_all flattens them and returns;
\* with no companies configured it returns [] at once
ScrapeAllReturns ==
    /\ ret.kind = "pending"
    /\ \A c \in Companies : task[c].pc = "done"
    /\ ret' = Return(Flatten(gather(task)))
    /\ UNCHANGED <<impl, companies, sem, task>>
    /\ UNCHANGED <<geoVars, dataVars>>


NextScrape ==
    \/ \E c \in Companies : Acquire(c)
    \/ \E c \in Companies : AdapterReturns(c)
    \/ \E c \in Companies : SubclassReturns(c)
    \/ \E c \in Companies : SubclassRaises(c)
    \/ ScrapeAllReturns


(***************************************************************************)
(* location_filter.py: LocationFilter.is_us_location, _geocode_location    *)
(* and is_us_location_sync.                                                *)
(***************************************************************************)
\* the locations that callers classify
GeoLocations == {"", "  ", "Remote", "Paris, TX", "Zug", " ZUG ", "Lund"}

\* lower-cased trimmed locations, computed once
KeyTable == [l \in GeoLocations |-> lower(strip(l))]

\* location.strip().lower()
LocationKey(location) ==
    IF location \in DOMAIN KeyTable THEN KeyTable[location] ELSE lower(strip(location))

\* the keys of GeoLocations and of the raw postings with their pattern verdict, computed once
PatternTable ==
    [k \in {lower(strip(l)) : l \in GeoLocations \cup {j.location : j \in RawJobs}}
        |-> PatternMatchSearch(k)]

\* a classifier whose pattern tables know no location
pattern_match_nothing(location_lower) == "none"

\* LocationFilter._pattern_match, looked up in PatternTable where the key is known
pattern_match(location_lower) ==
    IF location_lower \in DOMAIN PatternTable THEN PatternTable[location_lower]
    ELSE PatternMatchSearch(location_lower)

\* the locations that the classifier decides without the geocoding service
ClassifiedUs(location) ==
    \/ location = "" \/ strip(location) = ""
    \/ pattern_match(lower(strip(location))) = "true"

\* AsyncBaseScraper.filter_and_collect_stats when it is awaited: the postings judged US
filter_and_collect_stats(jobs) == SelectSeq(jobs, LAMBDA j : ClassifiedUs(j.location))

RateLimit == 11   \* the 1.1 seconds of _geocode_location, in tenths of a second

Callers == 1..NumCallers

EmptyCache == [k \in {} |-> TRUE]

\* a cache that stores nothing
CacheKeep(c, key, verdict) == c

\* self._cache[location_key] = result
CachePut(c, key, verdict) == [k \in DOMAIN c \cup {key} |-> IF k = key THEN verdict ELSE c[k]]

\* what the geocoding service answers: a US address, another country, or nothing usable
\* (exception, status other than 200, empty result, no country code)
GeoAnswers == {"US", "other", "fail"}

\* a geocoder whose failures count as a US address
GeocodeResultAssumeUs(answer) == IF answer = "other" THEN "false" ELSE "true"

\* _geocode_location after the request: True, False or None
GeocodeResult(answer) ==
    IF answer = "US" THEN "true" ELSE IF answer = "other" THEN "false" ELSE "none"

Idle == [pc |-> "idle", location |-> "", wake |-> 0]

NoReturn ==
    [mode |-> "none", step |-> "none", location |-> "", verdict |-> "none", answer |-> "none"]

\* "return result" of the async is_us_location(location) at one of its steps: "empty",
\* "cache", "pattern", "geocode" or "fallback"
Returned(step, location, verdict) ==
    [mode |-> "async", step |-> step, location |-> location,
     verdict |-> IF verdict THEN "true" ELSE "false", answer |-> "none"]

\* steps 3 and 4 of is_us_location, with a cache that forgets the other locations
AfterGeocodeEvict(location_key, result, c) ==
    [step |-> IF result # "none" THEN "geocode" ELSE "fallback",
     verdict |-> result = "true", cache |-> CachePut(EmptyCache, location_key, result = "true")]

\* steps 3 and 4 of is_us_location once _geocode_location has answered result: a verdict
\* is stored and returned, no verdict is stored and returned as not US
AfterGeocode(location_key, result, c) ==
    IF result # "none"
    THEN [step |-> "geocode", verdict |-> result = "true",
          cache |-> CachePut(c, location_key, result = "true")]
    ELSE [step |-> "fallback", verdict |-> FALSE, cache |-> CachePut(c, location_key, FALSE)]

\* the async is_us_location(location) on the cache c when no other task runs meanwhile and
\* _geocode_location answers result
is_us_location(location, c, result) ==
    IF location = "" \/ strip(location) = ""
    THEN [step |-> "empty", verdict |-> TRUE, cache |-> c]
    ELSE IF LocationKey(location) \in DOMAIN c
    THEN [step |-> "cache", verdict |-> c[LocationKey(location)], cache |-> c]
    ELSE IF pattern_match(LocationKey(location)) # "none"
    THEN [step |-> "pattern", verdict |-> pattern_match(LocationKey(location)) = "true",
          cache |-> CachePut(c, LocationKey(location),
                             pattern_match(LocationKey(location)) = "true")]
    ELSE AfterGeocode(LocationKey(location), result, c)

InitGeo ==
    /\ cache = EmptyCache
    /\ last_api_call = 0
    /\ now = ProcessStart
    /\ api_calls = <<>>
    /\ caller = [p \in Callers |-> Idle]
    /\ last_return = NoReturn

\* the rest of _geocode_location and of is_us_location once the rate limiter lets the
\* call through: stamp _last_api_call, make the (blocking) request, cache the verdict
Geocode(p, location) ==
    /\ Len(api_calls) < MaxApiCalls
    /\ last_api_call' = now
    /\ api_calls' = Append(api_calls, [time |-> now, key |-> LocationKey(location)])
    /\ \E answer \in GeoAnswers, d \in 0..MaxRequestTicks :
          LET r == AfterGeocode(LocationKey(location), GeocodeResult(answer), cache)
          IN  /\ now' = now + d
              /\ cache' = r.cache
              /\ last_return' = [Returned(r.step, location, r.verdict) EXCEPT !.answer = answer]
    /\ caller' = [caller EXCEPT ![p] = Idle]

\* a sync classifier that keeps a location that no pattern knows
SyncPatternMatchAssumeUs(location_key, result, c) ==
    [step |-> IF result # "none" THEN "pattern" ELSE "fallback",
     verdict |-> result # "false", cache |-> CachePut(c, location_key, result # "false")]

\* steps 2 and 3 of is_us_location_sync: the pattern verdict is stored and returned, and
\* a location that no pattern knows is stored and returned as not US
SyncPatternMatch(location_key, result, c) ==
    IF result # "none"
    THEN [step |-> "pattern", verdict |-> result = "true",
          cache |-> CachePut(c, location_key, result = "true")]
    ELSE [step |-> "fallback", verdict |-> FALSE, cache |-> CachePut(c, location_key, FALSE)]

\* a sync classifier that does not ask the cache and decides every location anew
SyncRecompute(location_key, c) ==
    SyncPatternMatch(location_key, pattern_match(location_key), c)

\* step 1 of is_us_location_sync: the cache is asked first
SyncCacheFirst(location_key, c) ==
    IF location_key \in DOMAIN c
    THEN [step |-> "cache", verdict |-> c[location_key], cache |-> c]
    ELSE SyncPatternMatch(location_key, pattern_match(location_key), c)

\* a sync classifier without the test for an empty location
is_us_location_sync_no_empty_test(location, c) == SyncCacheFirst(LocationKey(location), c)

\* is_us_location_sync(location) on the cache c: the verdict and the cache afterwards
is_us_location_sync(location, c) ==
    IF location = "" \/ strip(location) = ""
    THEN [step |-> "empty", verdict |-> TRUE, cache |-> c]
    ELSE SyncCacheFirst(LocationKey(location), c)

\* a caller that cannot await calls is_us_location_sync(location); it returns at once
ClassifySync(location) ==
    /\ LET r == is_us_location_sync(location, cache)
       IN  /\ cache' = r.cache
           /\ last_return' = [mode |-> "sync", step |-> r.step, location |-> location,
                              verdict |-> IF r.verdict THEN "true" ELSE "false",
                              answer |-> "none"]
    /\ UNCHANGED <<last_api_call, now, api_calls, caller>>
    /\ UNCHANGED <<scrapeVars, dataVars>>

\* "await is_us_location(location)" in task p, from the call to its return or to the
\* asyncio.sleep of _geocode_location
ClassifyCall(p, location) ==
    /\ caller[p].pc = "idle"
    /\ LET location_key == LocationKey(location)
           result == pattern_match(location_key)
           time_since_last_call == now - last_api_call
       IN  IF location = "" \/ strip(location) = ""
           THEN /\ last_return' = Returned("empty", location, TRUE)
                /\ UNCHANGED <<cache, last_api_call, now, api_calls, caller>>
           ELSE IF location_key \in DOMAIN cache
           THEN /\ last_return' = Returned("cache", location, cache[location_key])
                /\ UNCHANGED <<cache, last_api_call, now, api_calls, caller>>
           ELSE IF result # "none"
           THEN /\ cache' = CachePut(cache, location_key, result = "true")
                /\ last_return' = Returned("pattern", location, result = "true")
                /\ UNCHANGED <<last_api_call, now, api_calls, caller>>
           ELSE IF time_since_last_call < RateLimit
           THEN /\ caller' = [caller EXCEPT ![p] =
                                 [pc |-> "sleeping", location |-> location,
                                  wake |-> now + (RateLimit - time_since_last_call)]]
                /\ UNCHANGED <<cache, last_api_call, now, api_calls, last_return>>
           ELSE Geocode(p, location)

\* task p calls "await is_us_location(location)"
Classify(p, location) ==
    /\ ClassifyCall(p, location)
    /\ UNCHANGED <<scrapeVars, dataVars>>

\* the asyncio.sleep of task p is over: _geocode_location goes on to the return of
\* is_us_location
WakeUp(p) ==
    /\ caller[p].pc = "sleeping"
    /\ now >= caller[p].wake
    /\ Geocode(p, caller[p].location)

\* the asyncio.sleep of task p is over
Wake(p) ==
    /\ WakeUp(p)
    /\ UNCHANGED <<scrapeVars, dataVars>>

\* a tenth of a second passes
Tick ==
    /\ now < ProcessStart + MaxTicks
    /\ now' = now + 1
    /\ UNCHANGED <<cache, last_api_call, api_calls, caller, last_return>>
    /\ UNCHANGED <<scrapeVars, dataVars>>

NextGeo ==
    \/ \E p \in Callers : \E location \in GeoLocations : Classify(p, location)
    \/ \E location \in GeoLocations : ClassifySync(location)
    \/ \E p \in Callers : Wake(p)
    \/ Tick


\* the state of the variables of a component that does not run
IdleScrape ==
    /\ impl = "Subclass"
    /\ companies = <<>>
    /\ sem = MaxConcurrent
    /\ task = <<>>
    /\ ret = NotReturned


\* job_aggregator.main is not run
IdleRun ==
    /\ adapters = "conforming"
    /\ main = [pc |-> "idle", results |-> <<>>, merge_args |-> <<>>, final_jobs |-> <<>>,
               exit_status |-> "none"]

\* no NotionSync is constructed; the Notion database holds no page
IdleSync ==
    /\ synced_jobs = {}
    /\ sync_cache_file = {}
    /\ pages = [job_link \in {} |-> 0]
    /\ sync_calls = 0
    /\ sync_stats = [total |-> 0, new |-> 0, existing |-> 0, cached_skip |-> 0, errors |-> 0]
    /\ sync_log = [jobs |-> <<>>, processed |-> <<>>]

\* the state of the JobDataProcessor before it is handed anything
IdleData ==
    /\ wall_clock = [days |-> 0, secs |-> 0]
    /\ scraped_jobs = <<>>
    /\ merged = <<>>
    /\ dated_jobs = <<>>
    /\ recent = NotReturned
    /\ IdleRun
    /\ IdleSync

vars == <<scrapeVars, geoVars, dataVars>>

\* a scraper is constructed; the classifier is fresh
InitScrapeAll == InitScrape /\ InitGeo /\ IdleData

\* one scrape_all of one scraper
SpecScrape == InitScrapeAll /\ [][NextScrape]_vars

\* the scrape_company call of task c returns or raises
CompanySettles(c) ==
    /\ c \in Companies
    /\ (AdapterReturns(c) \/ SubclassReturns(c) \/ SubclassRaises(c))

\* the task of organization c enters "async with semaphore"
TaskAcquires(c) == c \in Companies /\ Acquire(c)

\* the event loop runs every task that is ready: a task that waits for the semaphore
\* enters once a permit is free, a scrape_company call that has started returns or
\* raises, and scrape_all goes on once asyncio.gather has every result
ScrapeFairness ==
    /\ \A c \in 1..NumCompanies : WF_vars(TaskAcquires(c))
    /\ \A c \in 1..NumCompanies : WF_vars(CompanySettles(c))
    /\ WF_vars(ScrapeAllReturns)

\* one scrape_all of one scraper on an event loop that runs every ready task
SpecScrapeFair == InitScrapeAll /\ [][NextScrape]_vars /\ ScrapeFairness

\* the classifier is fresh; no scraper runs
InitGeoOnly == IdleScrape /\ InitGeo /\ IdleData

\* concurrent callers of the shared LocationFilter
SpecGeo == InitGeoOnly /\ [][NextGeo]_vars

(***************************************************************************)
(* datetime: ordinals of dates and datetime.strptime for the formats of    *)
(* JobDataProcessor.filter_recent_jobs.                                    *)
(***************************************************************************)
IsDigit(c) == Ord(c) >= Ord("0") /\ Ord(c) <= Ord("9")

RECURSIVE IsDigits(_)
IsDigits(s) == s = "" \/ (IsDigit(Head(s)) /\ IsDigits(Tail(s)))

RECURSIVE ToInt(_)
\* int(s) for a string of digits
ToInt(s) == IF s = "" THEN 0 ELSE 10 * ToInt(SubSeq(s, 1, Len(s) - 1)) + (Ord(CharAt(s, Len(s))) - Ord("0"))

RECURSIVE Split(_, _)
\* str.split(sep) for a separator of one character
Split(s, sep) ==
    IF \A i \in 1..Len(s) : CharAt(s, i) # sep THEN <<s>>
    ELSE LET i == CHOOSE k \in 1..Len(s) : CharAt(s, k) = sep /\ \A m \in 1..(k - 1) : CharAt(s, m) # sep
         IN  <<SubSeq(s, 1, i - 1)>> \o Split(SubSeq(s, i + 1, Len(s)), sep)

\* the directive %Y: four digits
IsYearField(f) == Len(f) = 4 /\ IsDigits(f)

\* the directive %m: 1[0-2]|0[1-9]|[1-9]
IsMonthField(f) == Len(f) \in {1, 2} /\ IsDigits(f) /\ ToInt(f) \in 1..12

\* the directive %d: 3[01]|[12]\d|0[1-9]|[1-9]| [1-9]
IsDayField(f) ==
    \/ Len(f) \in {1, 2} /\ IsDigits(f) /\ ToInt(f) \in 1..31
    \/ Len(f) = 2 /\ CharAt(f, 1) = " " /\ IsDigit(CharAt(f, 2)) /\ CharAt(f, 2) # "0"

\* the value of a %d field
DayValue(f) == IF CharAt(f, 1) = " " THEN ToInt(Tail(f)) ELSE ToInt(f)

\* the directives %H, %M and %S
IsClockField(f, max) == Len(f) \in {1, 2} /\ IsDigits(f) /\ ToInt(f) \in 0..max

IsLeap(y) == y % 4 = 0 /\ (y % 100 # 0 \/ y % 400 = 0)

DaysInMonth(y, m) ==
    IF m = 2 THEN (IF IsLeap(y) THEN 29 ELSE 28)
    ELSE IF m \in {4, 6, 9, 11} THEN 30 ELSE 31

RECURSIVE DaysBeforeMonth(_, _)
DaysBeforeMonth(y, m) == IF m = 1 THEN 0 ELSE DaysBeforeMonth(y, m - 1) + DaysInMonth(y, m - 1)

\* date(y, m, d).toordinal()
ToOrdinal(y, m, d) ==
    LET p == y - 1
    IN  p * 365 + (p \div 4) - (p \div 100) + (p \div 400) + DaysBeforeMonth(y, m) + d

\* the datetime constructor raises ValueError for a date that does not exist
ValidDate(y, m, d) == y >= 1 /\ m \in 1..12 /\ d >= 1 /\ d <= DaysInMonth(y, m)

NoDate == [ok |-> FALSE, days |-> 0, secs |-> 0]

DateTime(y, m, d, secs) ==
    IF ValidDate(y, m, d) THEN [ok |-> TRUE, days |-> ToOrdinal(y, m, d), secs |-> secs] ELSE NoDate

\* datetime.strptime(s, '%Y-%m-%d')
StrptimeYmd(s) ==
    LET f == Split(s, "-")
    IN  IF Len(f) = 3 /\ IsYearField(f[1]) /\ IsMonthField(f[2]) /\ IsDayField(f[3])
        THEN DateTime(ToInt(f[1]), ToInt(f[2]), DayValue(f[3]), 0)
        ELSE NoDate

\* the clock part %H:%M:%S, in seconds, or -1
ClockSeconds(s) ==
    LET f == Split(s, ":")
    IN  \* %S also matches 60 and 61, which the datetime constructor then rejects
        IF Len(f) = 3 /\ IsClockField(f[1], 23) /\ IsClockField(f[2], 59) /\ IsClockField(f[3], 59)
        THEN ToInt(f[1]) * 3600 + ToInt(f[2]) * 60 + ToInt(f[3])
        ELSE -1

\* a date and a clock part joined into a datetime
DateAndClock(date, clock) ==
    IF date.ok /\ clock >= 0
    THEN [ok |-> TRUE, days |-> date.days, secs |-> clock]
    ELSE NoDate

\* the positions of s that hold the character c
Positions(s, c) == {i \in 1..Len(s) : CharAt(s, i) = c}

\* datetime.strptime(s, '%Y-%m-%dT%H:%M:%S')
StrptimeYmdTHms(s) ==
    IF \E i \in Positions(s, "T") :
          DateAndClock(StrptimeYmd(SubSeq(s, 1, i - 1)), ClockSeconds(SubSeq(s, i + 1, Len(s)))).ok
    THEN LET i == CHOOSE k \in Positions(s, "T") :
                     DateAndClock(StrptimeYmd(SubSeq(s, 1, k - 1)),
                                  ClockSeconds(SubSeq(s, k + 1, Len(s)))).ok
         IN  DateAndClock(StrptimeYmd(SubSeq(s, 1, i - 1)), ClockSeconds(SubSeq(s, i + 1, Len(s))))
    ELSE NoDate

\* the splits of s into a date, a run of blanks and a clock part
BlankSplits(s) ==
    {<<i, j>> \in (1..Len(s)) \X (1..Len(s)) :
        /\ i <= j
        /\ \A k \in i..j : CharAt(s, k) = " "
        /\ DateAndClock(StrptimeYmd(SubSeq(s, 1, i - 1)), ClockSeconds(SubSeq(s, j + 1, Len(s)))).ok}

\* datetime.strptime(s, '%Y-%m-%d %H:%M:%S'): the blank of the format matches \s+
StrptimeYmdHms(s) ==
    IF BlankSplits(s) # {}
    THEN LET ij == CHOOSE x \in BlankSplits(s) : TRUE
         IN  DateAndClock(StrptimeYmd(SubSeq(s, 1, ij[1] - 1)),
                          ClockSeconds(SubSeq(s, ij[2] + 1, Len(s))))
    ELSE NoDate

\* datetime.strptime(s, '%m/%d/%Y')
StrptimeMdy(s) ==
    LET f == Split(s, "/")
    IN  IF Len(f) = 3 /\ IsMonthField(f[1]) /\ IsDayField(f[2]) /\ IsYearField(f[3])
        THEN DateTime(ToInt(f[3]), ToInt(f[1]), DayValue(f[2]), 0)
        ELSE NoDate

\* datetime.strptime(s, '%d/%m/%Y')
StrptimeDmy(s) ==
    LET f == Split(s, "/")
    IN  IF Len(f) = 3 /\ IsDayField(f[1]) /\ IsMonthField(f[2]) /\ IsYearField(f[3])
        THEN DateTime(ToInt(f[3]), ToInt(f[2]), DayValue(f[1]), 0)
        ELSE NoDate

\* the loop over date_formats: the first format that parses s wins
FirstFormat(s) ==
    IF StrptimeYmd(s).ok THEN StrptimeYmd(s)
    ELSE IF StrptimeYmdTHms(s).ok THEN StrptimeYmdTHms(s)
    ELSE IF StrptimeYmdHms(s).ok THEN StrptimeYmdHms(s)
    ELSE IF StrptimeMdy(s).ok THEN StrptimeMdy(s)
    ELSE StrptimeDmy(s)

\* datetime >= datetime
NotBefore(a, b) == a.days > b.days \/ (a.days = b.days /\ a.secs >= b.secs)

(***************************************************************************)
(* location_filter.py is_us_location_sync and data_processor_pandas.py     *)
(* JobDataProcessor.                                                       *)
(***************************************************************************)
\* job.get(key, default)
Get(job, key, default) == IF key \in DOMAIN job THEN job[key] ELSE default

\* one turn of the loop of filter_us_locations: r is what is_us_location_sync answered
UsLoopTurn(us_jobs, job, r) ==
    [jobs |-> IF r.verdict THEN Append(us_jobs, job) ELSE us_jobs, cache |-> r.cache]

RECURSIVE UsLoop(_, _)
\* the loop of filter_us_locations over the postings left, from the state acc of the loop
UsLoop(jobs, acc) ==
    IF jobs = <<>> THEN acc
    ELSE UsLoop(Tail(jobs),
                UsLoopTurn(acc.jobs, Head(jobs),
                           is_us_location_sync(Get(Head(jobs), "location", ""), acc.cache)))

\* JobDataProcessor.filter_us_locations: the US postings and the cache afterwards
filter_us_locations(jobs, c) == UsLoop(jobs, [jobs |-> <<>>, cache |-> c])

\* datetime.now() - timedelta(days=365)
one_year_ago(t) == [ok |-> TRUE, days |-> t.days - 365, secs |-> t.secs]

\* the recency filter drops every posting whose date does not parse
KeepRecentFailClosed(published_date_str, t) ==
    LET published_date == FirstFormat(SplitT0(published_date_str))
    IN  published_date.ok /\ NotBefore(published_date, one_year_ago(t))

\* the body of the loop of filter_recent_jobs: whether the posting is kept
KeepRecent(published_date_str, t) ==
    IF published_date_str = "" \/ strip(published_date_str) = "" THEN TRUE
    ELSE LET published_date == FirstFormat(SplitT0(published_date_str))
         IN  IF published_date.ok THEN NotBefore(published_date, one_year_ago(t)) ELSE TRUE

\* JobDataProcessor.filter_recent_jobs
filter_recent_jobs(jobs, t) ==
    SelectSeq(jobs, LAMBDA j : KeepRecent(Get(j, "published_date", ""), t))

\* df['exact_dedup_key']
exact_dedup_key(j) ==
    lower(j.company_name) \o "|" \o lower(j.role_name) \o "|" \o lower(j.location)

\* df['role_dedup_key']
role_dedup_key(j) == lower(j.company_name) \o "|" \o lower(j.role_name)

\* the subsequence of s at the indices in keep, in order
RECURSIVE Pick(_, _, _)
Pick(s, keep, i) ==
    IF i > Len(s) THEN <<>>
    ELSE (IF i \in keep THEN <<s[i]>> ELSE <<>>) \o Pick(s, keep, i + 1)

\* df.drop_duplicates(subset=['exact_dedup_key'], keep='first')
drop_duplicates(jobs) ==
    Pick(jobs, {i \in 1..Len(jobs) :
                   \A k \in 1..(i - 1) : exact_dedup_key(jobs[k]) # exact_dedup_key(jobs[i])}, 1)

RECURSIVE SortStrings(_)
\* the strings of a set in ascending order
SortStrings(S) ==
    IF S = {} THEN <<>>
    ELSE LET m == CHOOSE x \in S : \A y \in S \ {x} : StrLess(x, y)
         IN  <<m>> \o SortStrings(S \ {m})

\* a consolidation that takes the group in input order
sort_values_input_order(group) == group

RECURSIVE sort_values(_)
\* group_df.sort_values('location') for a group whose locations differ
sort_values(group) ==
    IF group = <<>> THEN <<>>
    ELSE LET i == CHOOSE k \in 1..Len(group) :
                     \A m \in 1..Len(group) : m # k => StrLess(group[k].location, group[m].location)
         IN  <<group[i]>> \o sort_values(Pick(group, (1..Len(group)) \ {i}, 1))

RECURSIVE Distinct(_)
\* the non-empty strings of a list, each at its first occurrence
Distinct(strs) ==
    IF strs = <<>> THEN <<>>
    ELSE LET init == Distinct(SubSeq(strs, 1, Len(strs) - 1))
             x == strs[Len(strs)]
         IN  IF x # "" /\ \A i \in 1..Len(init) : init[i] # x THEN Append(init, x) ELSE init

RECURSIVE Join(_)
\* '; '.join(strs)
Join(strs) ==
    IF strs = <<>> THEN ""
    ELSE IF Len(strs) = 1 THEN strs[1]
    ELSE strs[1] \o "; " \o Join(Tail(strs))

\* the posting that deduplicate_jobs makes of one group of the groupby
Consolidate(group) ==
    IF Len(group) = 1 THEN group[1]
    ELSE LET group_df_sorted == sort_values(group)
             base_job == group_df_sorted[1]
             all_locations == Distinct([i \in 1..Len(group) |-> strip(group_df_sorted[i].location)])
             all_links == Distinct([i \in 1..Len(group) |-> strip(group_df_sorted[i].job_link)])
         IN  [base_job EXCEPT !.location = Join(all_locations),
                              !.job_link = IF all_links # <<>> THEN all_links[1] ELSE @]

\* step 2 of deduplicate_jobs: one posting per group of df.groupby('role_dedup_key'),
\* the groups in ascending order of their key
consolidate_groups(unique_jobs) ==
    LET keys == SortStrings({role_dedup_key(unique_jobs[i]) : i \in 1..Len(unique_jobs)})
    IN  [g \in 1..Len(keys) |->
            Consolidate(SelectSeq(unique_jobs, LAMBDA j : role_dedup_key(j) = keys[g]))]

\* JobDataProcessor.deduplicate_jobs
deduplicate_jobs(jobs) == consolidate_groups(drop_duplicates(jobs))

\* the last step of merge_and_deduplicate: deduplicate_jobs(recent_jobs)
MergeDeduplicate(combined, us, recent_jobs, unique_jobs) ==
    [all_jobs |-> combined, us_jobs |-> us.jobs, recent_jobs |-> recent_jobs,
     unique_jobs |-> unique_jobs, output |-> consolidate_groups(unique_jobs),
     cache |-> us.cache]

\* the second step of merge_and_deduplicate: filter_recent_jobs(us_jobs)
MergeRecent(combined, us, recent_jobs) ==
    MergeDeduplicate(combined, us, recent_jobs, drop_duplicates(recent_jobs))

\* the first step of merge_and_deduplicate: filter_us_locations(all_jobs)
MergeUs(combined, us, t) == MergeRecent(combined, us, filter_recent_jobs(us.jobs, t))

\* JobDataProcessor.merge_and_deduplicate with the results of its steps and the cache
\* it leaves
merge_and_deduplicate(ashby_jobs, greenhouse_jobs, lever_jobs, c, t) ==
    MergeUs(ashby_jobs \o greenhouse_jobs \o lever_jobs,
            filter_us_locations(ashby_jobs \o greenhouse_jobs \o lever_jobs, c), t)

(***************************************************************************)
(* One call of JobDataProcessor.filter_recent_jobs.                        *)
(***************************************************************************)
MaxDated == 2          \* postings in the argument of filter_recent_jobs

\* the year of the day with proleptic ordinal n
YearOf(n) == CHOOSE y \in (n \div 366)..(n \div 365 + 1) :
                 ToOrdinal(y, 1, 1) <= n /\ n < ToOrdinal(y + 1, 1, 1)

\* the month of the day with proleptic ordinal n
MonthOf(n) == CHOOSE m \in 1..12 :
                  /\ ToOrdinal(YearOf(n), m, 1) <= n
                  /\ n < ToOrdinal(YearOf(n), m, 1) + DaysInMonth(YearOf(n), m)

\* a number below 100 in two digits
TwoDigits(k) == CharAt("0123456789", (k \div 10) + 1) \o CharAt("0123456789", (k % 10) + 1)

\* date.fromordinal(n).isoformat(), for a year of four digits
Isoformat(n) ==
    LET y == YearOf(n)
        m == MonthOf(n)
        d == n - ToOrdinal(y, m, 1) + 1
    IN  TwoDigits(y \div 100) \o TwoDigits(y % 100) \o "-" \o TwoDigits(m) \o "-" \o TwoDigits(d)

\* the instants at which the filter runs: two days, one of them 365 days after a day of a
\* leap year, at midnight, during the day and at the last second of the day
Clocks ==
    [days : {ToOrdinal(2026, 11, 5), ToOrdinal(2024, 12, 31)}, secs : {0, 36000, 86399}]

\* the published_date strings of the postings, "absent" for a posting without the key
DateStrings(t) ==
    {Isoformat(t.days - 364), Isoformat(t.days - 365), Isoformat(t.days - 366),
     Isoformat(t.days - 365) \o "T10:00:00", Isoformat(t.days - 365) \o " 23:59:59",
     "2020-01-01T00:00:00Z", "01/02/2020", "13/11/2020", "2025-02-30",
     "", "   ", "n/a", "Tuesday", "absent"}

\* a posting as the Ashby adapter formats it, with the given published_date
DatedJob(i, date) ==
    LET job == AshbyJob([id |-> "d" \o CharAt("123456789", i), title |-> "Forward Deployed Engineer",
                         location |-> "Remote", date |-> date, url |-> ""],
                        ConfigEntry(1, TRUE))
    IN  IF date = "absent"
        THEN [k \in DOMAIN job \ {"published_date"} |-> job[k]]
        ELSE job

InitRecency ==
    /\ IdleScrape
    /\ InitGeo
    /\ wall_clock \in Clocks
    /\ scraped_jobs = <<>>
    /\ merged = <<>>
    /\ \E n \in 0..MaxDated : \E f \in [1..n -> DateStrings(wall_clock)] :
           dated_jobs = [i \in 1..n |-> DatedJob(i, f[i])]
    /\ recent = NotReturned
    /\ IdleRun
    /\ IdleSync

\* processor.filter_recent_jobs(dated_jobs)
FilterRecentJobs ==
    /\ recent = NotReturned
    /\ recent' = Return(filter_recent_jobs(dated_jobs, wall_clock))
    /\ UNCHANGED <<scrapeVars, geoVars, mergeVars, dated_jobs, runVars, syncVars>>

NextRecency == FilterRecentJobs

\* one call of the recency filter
SpecRecency == InitRecency /\ [][NextRecency]_vars

(***************************************************************************)
(* job_aggregator.py hands the lists of the three platforms to             *)
(* JobDataProcessor.merge_and_deduplicate.                                 *)
(***************************************************************************)
MaxJobs == 3           \* postings that the three platforms return together

\* a formatted posting as the adapters build it with create_job_dict
Posting(source, id, company, role, location, link, date) ==
    [role_name |-> role,
     company_name |-> company,
     location |-> location,
     job_link |-> link,
     employment_type |-> "FullTime",
     team |-> "",
     published_date |-> date,
     compensation |-> "Not disclosed",
     source |-> source,
     job_id |-> id]

\* the postings a platform may return
PlatformJobs(source) ==
    IF source = "Ashby"
    THEN { Posting("Ashby", "a1", "Acme", "Eng", "Remote", "https://a/1", "2026-10-01"),
           Posting("Ashby", "a2", "Acme", "Eng|Remote", "NYC", "https://a/2", "2026-10-01"),
           Posting("Ashby", "a3", "Acme", "Eng|Remote", "Remote", "https://a/3", "2026-10-01"),
           Posting("Ashby", "a4", "Beta", "Eng", "Berlin", "https://a/4", "2026-10-01"),
           Posting("Ashby", "a5", "Beta", "Eng", "", "https://a/5", ""),
           Posting("Ashby", "a6", "Acme", "Eng|Remote", "NYC", "https://a/6", "2024-01-15") }
    ELSE IF source = "Greenhouse"
    THEN { Posting("Greenhouse", "g1", "Acme", "Eng", "US Remote", "https://g/1", "2026-10-01"),
           Posting("Greenhouse", "g2", "Acme", "Eng", " NYC", "", "2026-10-01"),
           Posting("Greenhouse", "g3", "Acme", "Eng", "Remote|NYC", "https://g/3", "2026-10-01"),
           Posting("Greenhouse", "g4", "Beta", "Eng", "Zug", "https://g/4", "2026-10-01") }
    ELSE { Posting("Lever", "l1", "acme", "ENG", "remote", "https://l/1", "2026-10-01"),
           Posting("Lever", "l2", "Acme", "Eng", "NYC", "https://l/2", "2026-10-01"),
           Posting("Lever", "l3", "Acme|Eng", "Remote", "Austin, TX", "https://l/3", "2026-10-01"),
           Posting("Lever", "l4", "Beta", "Eng", "Austin, TX", "https://l/4", "2024-01-15") }

\* the lists of at most n postings of a platform
JobLists(source, n) == UNION {[1..k -> PlatformJobs(source)] : k \in 0..n}

\* the clock when the aggregator runs
MergeClock == [days |-> ToOrdinal(2026, 11, 5), secs |-> 36000]

\* the caches the scrapers may have left: empty, or with a geocoded verdict
LeftCaches == {EmptyCache, CachePut(EmptyCache, "zug", TRUE)}

InitMerge ==
    /\ IdleScrape
    /\ cache \in LeftCaches
    /\ last_api_call = 0
    /\ now = ProcessStart
    /\ api_calls = <<>>
    /\ caller = [p \in Callers |-> Idle]
    /\ last_return = NoReturn
    /\ wall_clock = MergeClock
    /\ \E a \in JobLists("Ashby", MaxJobs) :
       \E g \in JobLists("Greenhouse", MaxJobs - Len(a)) :
       \E l \in JobLists("Lever", MaxJobs - Len(a) - Len(g)) :
           scraped_jobs = [ashby |-> a, greenhouse |-> g, lever |-> l]
    /\ merged = <<>>
    /\ dated_jobs = <<>>
    /\ recent = NotReturned
    /\ IdleRun
    /\ IdleSync

\* processor.merge_and_deduplicate(ashby_jobs, greenhouse_jobs, lever_jobs)
MergeAndDeduplicate ==
    /\ merged = <<>>
    /\ merged' = <<merge_and_deduplicate(scraped_jobs.ashby, scraped_jobs.greenhouse,
                                         scraped_jobs.lever, cache, wall_clock)>>
    /\ cache' = merged'[1].cache
    /\ UNCHANGED <<last_api_call, now, api_calls, caller, last_return>>
    /\ UNCHANGED <<scrapeVars, wall_clock, scraped_jobs, recencyVars, runVars, syncVars>>

\* merge_and_deduplicate applied to its own output, with the cache the first run left
MergeAgain ==
    /\ Len(merged) = 1
    /\ merged' = Append(merged, merge_and_deduplicate(merged[1].output, <<>>, <<>>, cache,
                                                      wall_clock))
    /\ cache' = merged'[2].cache
    /\ UNCHANGED <<last_api_call, now, api_calls, caller, last_return>>
    /\ UNCHANGED <<scrapeVars, wall_clock, scraped_jobs, recencyVars, runVars, syncVars>>

NextMerge ==
    \/ MergeAndDeduplicate
    \/ MergeAgain

\* the merge of the lists of the three platforms, and a second merge of its output
SpecMerge == InitMerge /\ [][NextMerge]_vars

(***************************************************************************)
(* The adapters' location filter (AsyncBaseScraper.filter_and_collect_stats *)
(* in concurrent tasks) followed by the merge on the same classifier cache. *)
(***************************************************************************)
\* the locations of the postings that the adapter tasks classify
PipelineLocations == {"Remote", "Zug", "Lund"}

\* the posting at a location that an adapter task classifies
JobAt(location) ==
    Posting("Ashby", "a-" \o lower(location), "Acme", "Eng", location,
            "https://a/" \o lower(location), "2026-10-01")

\* us_jobs.append(job) if the classifier call of task p has returned true in this step
UsJobsAppend(us_jobs, p, job) ==
    IF caller'[p].pc = "idle" /\ last_return'.verdict = "true"
    THEN [us_jobs EXCEPT !.ashby = Append(@, job)]
    ELSE us_jobs

\* a turn of the loop of filter_and_collect_stats in task p: "if await
\* is_us_location(location): us_jobs.append(job)", up to the return of the classifier
\* or to its asyncio.sleep
AdapterClassifies(p, location) ==
    /\ merged = <<>>
    /\ Len(scraped_jobs.ashby) < MaxJobs
    /\ ClassifyCall(p, location)
    /\ scraped_jobs' = UsJobsAppend(scraped_jobs, p, JobAt(location))
    /\ UNCHANGED <<scrapeVars, wall_clock, merged, recencyVars, runVars, syncVars>>

\* the classifier call of task p goes on after its asyncio.sleep and returns
AdapterWakes(p) ==
    /\ merged = <<>>
    /\ Len(scraped_jobs.ashby) < MaxJobs
    /\ WakeUp(p)
    /\ scraped_jobs' = UsJobsAppend(scraped_jobs, p, JobAt(caller[p].location))
    /\ UNCHANGED <<scrapeVars, wall_clock, merged, recencyVars, runVars, syncVars>>

\* every adapter task has settled: main hands the postings to merge_and_deduplicate
MergeAfterScrape ==
    /\ \A p \in Callers : caller[p].pc = "idle"
    /\ MergeAndDeduplicate

NextPipeline ==
    \/ \E p \in Callers : \E location \in PipelineLocations : AdapterClassifies(p, location)
    \/ \E p \in Callers : AdapterWakes(p)
    \/ Tick
    \/ MergeAfterScrape

\* the classifier is fresh and no posting is classified yet
InitPipeline ==
    /\ IdleScrape
    /\ InitGeo
    /\ wall_clock = MergeClock
    /\ scraped_jobs = [ashby |-> <<>>, greenhouse |-> <<>>, lever |-> <<>>]
    /\ merged = <<>>
    /\ dated_jobs = <<>>
    /\ recent = NotReturned
    /\ IdleRun
    /\ IdleSync

\* adapter tasks that classify postings concurrently, then the merge
SpecPipeline == InitPipeline /\ [][NextPipeline]_vars

(***************************************************************************)
(* notion_sync.py: NotionSync.sync_jobs creates a page of the Notion       *)
(* database for every posting that is not known to be there and keeps the  *)
(* derived ids of the postings it has synced.                              *)
(***************************************************************************)
MaxBatch == 2          \* postings in the argument of one call of sync_jobs
MaxSyncCalls == 2      \* calls of sync_jobs

RECURSIVE ReplaceSpaces(_)
\* str.replace(' ', '_')
ReplaceSpaces(s) ==
    IF s = "" THEN ""
    ELSE (IF Head(s) = " " THEN "_" ELSE Head(s)) \o ReplaceSpaces(Tail(s))

\* the id built from company, role and location for a posting without job_id
FallbackJobId(company, role, location) ==
    lower(ReplaceSpaces(company \o "_" \o role \o "_" \o location))

\* NotionSync._generate_job_id
generate_job_id(job) ==
    Get(job, "source", "unknown") \o "_" \o
        (IF Get(job, "job_id", "") # "" THEN Get(job, "job_id", "")
         ELSE FallbackJobId(Get(job, "company_name", ""), Get(job, "role_name", ""),
                            Get(job, "location", "")))

\* what the Notion API does with a request: databases.query answers or raises, and
\* pages.create creates the page or raises
Oracles == [query : {"answered", "raised"}, create : {"created", "raised"}]

\* the pages of the database whose Job Link equals job_link
PagesWith(store, job_link) == IF job_link \in DOMAIN store THEN store[job_link] ELSE 0

\* NotionSync._job_exists: whether it returns the id of a page; None when the query raises
job_exists(job_link, store, query) == query = "answered" /\ PagesWith(store, job_link) > 0

\* self.client.pages.create(parent, properties) with the Job Link of the posting
pages_create(store, job_link) ==
    [l \in DOMAIN store \cup {job_link} |->
        IF l = job_link THEN PagesWith(store, job_link) + 1 ELSE store[l]]

\* stats[counter] += 1
Count(stats, counter) == [stats EXCEPT ![counter] = @ + 1]

\* a turn of the loop of sync_jobs over new_jobs: the derived id of the posting, whether
\* databases.query and pages.create were called for it, and the counter it incremented
Processed(unique_job_id, query, create, counter) ==
    [unique_job_id |-> unique_job_id, query |-> query, create |-> create,
     counter |-> counter]

\* a turn of the loop that does not add the id of a posting found in the database
ProcessJobForgetsExisting(acc, unique_job_id, job_link, o) ==
    IF job_link = ""
    THEN [acc EXCEPT !.stats = Count(@, "errors"),
                     !.processed = Append(@, Processed(unique_job_id, FALSE, FALSE, "errors"))]
    ELSE IF job_exists(job_link, acc.pages, o.query)
    THEN [acc EXCEPT !.stats = Count(@, "existing"),
                     !.processed = Append(@, Processed(unique_job_id, TRUE, FALSE, "existing"))]
    ELSE IF o.create = "raised"
    THEN [acc EXCEPT !.stats = Count(@, "errors"),
                     !.processed = Append(@, Processed(unique_job_id, TRUE, TRUE, "errors"))]
    ELSE [acc EXCEPT !.pages = pages_create(@, job_link),
                     !.stats = Count(@, "new"),
                     !.synced_jobs = @ \cup {unique_job_id},
                     !.processed = Append(@, Processed(unique_job_id, TRUE, TRUE, "new"))]

\* the body of the loop of sync_jobs over new_jobs, from the state acc of the call: the
\* ids known synced, the database and the counters
ProcessJob(acc, unique_job_id, job_link, o) ==
    IF job_link = ""
    THEN [acc EXCEPT !.stats = Count(@, "errors"),
                     !.processed = Append(@, Processed(unique_job_id, FALSE, FALSE, "errors"))]
    ELSE IF job_exists(job_link, acc.pages, o.query)
    THEN [acc EXCEPT !.stats = Count(@, "existing"),
                     !.synced_jobs = @ \cup {unique_job_id},
                     !.processed = Append(@, Processed(unique_job_id, TRUE, FALSE, "existing"))]
    ELSE IF o.create = "raised"
    THEN [acc EXCEPT !.stats = Count(@, "errors"),
                     !.processed = Append(@, Processed(unique_job_id, TRUE, TRUE, "errors"))]
    ELSE [acc EXCEPT !.pages = pages_create(@, job_link),
                     !.stats = Count(@, "new"),
                     !.synced_jobs = @ \cup {unique_job_id},
                     !.processed = Append(@, Processed(unique_job_id, TRUE, TRUE, "new"))]

RECURSIVE ProcessNewJobs(_, _, _, _)
\* the loop of sync_jobs over new_jobs from its k-th posting on
ProcessNewJobs(new_jobs, oracle, k, acc) ==
    IF k > Len(new_jobs) THEN acc
    ELSE ProcessNewJobs(new_jobs, oracle, k + 1,
                        ProcessJob(acc, generate_job_id(new_jobs[k]),
                                   Get(new_jobs[k], "job_link", ""), oracle[k]))

\* the first loop of sync_jobs: the postings whose derived id is not in the skip-cache
NewJobs(jobs, synced) == SelectSeq(jobs, LAMBDA job : generate_job_id(job) \notin synced)

\* the counters of sync_jobs after its first loop
FirstStats(jobs, new_jobs) ==
    [total |-> Len(jobs), new |-> 0, existing |-> 0,
     cached_skip |-> Len(jobs) - Len(new_jobs), errors |-> 0]

\* NotionSync.sync_jobs(jobs) up to the saving of the cache: the ids known synced, the
\* database and the counters it returns
sync_jobs(jobs, new_jobs, synced, store, oracle) ==
    ProcessNewJobs(new_jobs, oracle, 1,
                   [synced_jobs |-> synced, pages |-> store,
                    stats |-> FirstStats(jobs, new_jobs), processed |-> <<>>])

\* the postings handed to sync_jobs: two that share their job link, one without link,
\* one without job_id
SyncPostings ==
    { Posting("Ashby", "a1", "Acme", "Eng", "Remote", "https://a/1", "2026-10-01"),
      Posting("Ashby", "a6", "Acme", "Eng", "New York", "https://a/1", "2026-10-01"),
      Posting("Greenhouse", "g2", "Acme", "Eng", " NYC", "", "2026-10-01"),
      Posting("Lever", "", "Acme", "Field Eng", "New York", "https://l/5", "2026-10-01") }

\* the arguments of sync_jobs
Batches == UNION {[1..n -> SyncPostings] : n \in 0..MaxBatch}

\* notion_sync.sync_jobs(jobs), with _save_synced_jobs at its end, which writes the
\* file or logs that it could not
SyncJobs(jobs) ==
    /\ sync_calls < MaxSyncCalls
    /\ \E oracle \in [1..Len(NewJobs(jobs, synced_jobs)) -> Oracles] : \E saved \in BOOLEAN :
           LET r == sync_jobs(jobs, NewJobs(jobs, synced_jobs), synced_jobs, pages, oracle)
           IN  /\ synced_jobs' = r.synced_jobs
               /\ pages' = r.pages
               /\ sync_stats' = r.stats
               /\ sync_log' = [jobs |-> jobs, processed |-> r.processed]
               /\ sync_cache_file' = IF saved THEN r.synced_jobs ELSE sync_cache_file
    /\ sync_calls' = sync_calls + 1
    /\ UNCHANGED <<scrapeVars, geoVars, mergeVars, recencyVars, runVars>>

\* the next run of the program: NotionSync() loads the ids from synced_jobs.json, or
\* starts from the empty set when the file cannot be read
NewNotionSync ==
    /\ sync_calls < MaxSyncCalls
    /\ \E loaded \in BOOLEAN : synced_jobs' = IF loaded THEN sync_cache_file ELSE {}
    /\ UNCHANGED <<sync_cache_file, pages, sync_calls, sync_stats, sync_log>>
    /\ UNCHANGED <<scrapeVars, geoVars, mergeVars, recencyVars, runVars>>

\* cleanup_old_cache when last_sync of the file is older than the threshold: the ids
\* are cleared and the file is written, or the writing fails and is logged
CleanupOldCache ==
    /\ sync_calls < MaxSyncCalls
    /\ synced_jobs' = {}
    /\ \E saved \in BOOLEAN : sync_cache_file' = IF saved THEN {} ELSE sync_cache_file
    /\ UNCHANGED <<pages, sync_calls, sync_stats, sync_log>>
    /\ UNCHANGED <<scrapeVars, geoVars, mergeVars, recencyVars, runVars>>

NextSync ==
    \/ \E jobs \in Batches : SyncJobs(jobs)
    \/ NewNotionSync
    \/ CleanupOldCache

\* no posting is synced; the database is empty
InitSync == IdleScrape /\ InitGeo /\ IdleData

\* the calls of sync_jobs of one or several runs of the program
SpecSync == InitSync /\ [][NextSync]_vars

(***************************************************************************)
(* job_aggregator.py: main imports the scraper modules, creates the three  *)
(* scrapers, gathers their scrape_all, merges, saves and syncs.            *)
(***************************************************************************)
\* scraper_names of run_all_scrapers_async, in the order of its tasks
Platforms == <<"Ashby", "Greenhouse", "Lever">>

\* the adapter modules behind scraper_factory.py: those that are shipped, of which
\* lever_scraper.py does not compile; modules that compile and whose classes take
\* config_path alone, as the shipped classes do; modules that compile and whose classes
\* take (config_path, config_key), as create_scraper calls them
AdapterKinds == {"shipped", "one_argument", "conforming"}

\* what earlier runs left: nothing, or a page for https://a/1 and its id in the file
Stores ==
    { [file |-> {}, pages |-> [job_link \in {} |-> 0]],
      [file |-> {"Ashby_a1"}, pages |-> [job_link \in {"https://a/1"} |-> 1]] }

\* the program is started
InitMain ==
    /\ IdleScrape
    /\ cache \in LeftCaches
    /\ last_api_call = 0
    /\ now = ProcessStart
    /\ api_calls = <<>>
    /\ caller = [p \in Callers |-> Idle]
    /\ last_return = NoReturn
    /\ wall_clock = MergeClock
    /\ scraped_jobs = <<>>
    /\ merged = <<>>
    /\ dated_jobs = <<>>
    /\ recent = NotReturned
    /\ adapters \in AdapterKinds
    /\ main = [pc |-> "import", results |-> <<>>, merge_args |-> <<>>, final_jobs |-> <<>>,
               exit_status |-> "none"]
    /\ synced_jobs = {}
    /\ \E store \in Stores : sync_cache_file = store.file /\ pages = store.pages
    /\ sync_calls = 0
    /\ sync_stats = [total |-> 0, new |-> 0, existing |-> 0, cached_skip |-> 0, errors |-> 0]
    /\ sync_log = [jobs |-> <<>>, processed |-> <<>>]

\* sys.exit(1) in the handler of main, or the interpreter ending on an exception that
\* nothing handles
Exit1(m) == [m EXCEPT !.pc = "exited", !.exit_status = "1"]

\* "from scraper_factory import create_scraper": the adapter modules are compiled; the
\* IndentationError of lever_scraper.py ends the program before main is called
ImportScrapers ==
    /\ main.pc = "import"
    /\ main' = IF adapters = "shipped" THEN Exit1(main) ELSE [main EXCEPT !.pc = "create"]
    /\ UNCHANGED <<adapters, scrapeVars, geoVars, mergeVars, recencyVars, syncVars>>

\* the three create_scraper of run_all_scrapers_async: scraper_class(config_path,
\* config_key) is a TypeError for a class that takes config_path alone, which leaves
\* run_all_scrapers_async and reaches the handler of main
CreateScrapers ==
    /\ main.pc = "create"
    /\ main' = IF adapters = "one_argument" THEN Exit1(main)
               ELSE [main EXCEPT !.pc = "gather",
                                 !.results = [i \in 1..Len(Platforms) |-> NotReturned]]
    /\ UNCHANGED <<adapters, scrapeVars, geoVars, mergeVars, recencyVars, syncVars>>

\* what the scrape_all of a platform may give: a list of postings, or an exception
ScrapeAllOutcomes(source) ==
    {Return(jobs) : jobs \in JobLists(source, MaxPostings)} \cup {Raise("Exception")}

\* the scrape_all of platform i, one of the awaitables of the gather, returns or raises
ScrapeAllSettles(i) ==
    /\ main.pc = "gather"
    /\ main.results[i] = NotReturned
    /\ \E r \in ScrapeAllOutcomes(Platforms[i]) : main' = [main EXCEPT !.results[i] = r]
    /\ UNCHANGED <<adapters, scrapeVars, geoVars, mergeVars, recencyVars, syncVars>>

\* results[i] if not isinstance(results[i], Exception) else []
JobsOf(result) == IF result.kind = "raise" THEN <<>> ELSE result.value

\* asyncio.gather(*tasks, return_exceptions=True) returns once the three scrape_all have
\* settled; run_all_scrapers_async returns the three lists
GatherReturns ==
    /\ main.pc = "gather"
    /\ \A i \in 1..Len(Platforms) : main.results[i] # NotReturned
    /\ main' = [main EXCEPT !.pc = "merge",
                            !.merge_args = [i \in 1..Len(Platforms) |-> JobsOf(main.results[i])]]
    /\ UNCHANGED <<adapters, scrapeVars, geoVars, mergeVars, recencyVars, syncVars>>

\* main after processor.merge_and_deduplicate ran to its result m or, when raised, to an
\* exception of its deduplication step, which reaches the handler of main
AfterMerge(m, raised) ==
    /\ main' = IF raised THEN Exit1(main)
               ELSE [main EXCEPT !.pc = "save", !.final_jobs = m.output]
    /\ cache' = m.cache

\* final_jobs = processor.merge_and_deduplicate(ashby_jobs, greenhouse_jobs, lever_jobs)
Merge ==
    /\ main.pc = "merge"
    /\ \E raised \in BOOLEAN :
           AfterMerge(merge_and_deduplicate(main.merge_args[1], main.merge_args[2],
                                            main.merge_args[3], cache, wall_clock), raised)
    /\ UNCHANGED <<last_api_call, now, api_calls, caller, last_return>>
    /\ UNCHANGED <<adapters, scrapeVars, mergeVars, recencyVars, syncVars>>

\* csv_path = processor.save_to_csv(final_jobs): nothing is written for no posting;
\* otherwise the file is written, or open or the writer raises to the handler of main
SaveToCsv ==
    /\ main.pc = "save"
    /\ \E raised \in BOOLEAN :
           /\ raised => main.final_jobs # <<>>
           /\ main' = IF raised THEN Exit1(main) ELSE [main EXCEPT !.pc = "notion"]
    /\ UNCHANGED <<adapters, scrapeVars, geoVars, mergeVars, recencyVars, syncVars>>

\* the end of main after the try block of the Notion sync
Completed(m) == [m EXCEPT !.pc = "done", !.exit_status = "0"]

\* NotionSync() raises (no token), which main logs as a warning
NotionUnavailable ==
    /\ main.pc = "notion"
    /\ main' = Completed(main)
    /\ UNCHANGED <<adapters, scrapeVars, geoVars, mergeVars, recencyVars, syncVars>>

\* the state of the sync after the sync_jobs of main returned r
AfterSync(r, saved) ==
    /\ synced_jobs' = r.synced_jobs
    /\ pages' = r.pages
    /\ sync_stats' = r.stats
    /\ sync_log' = [jobs |-> main.final_jobs, processed |-> r.processed]
    /\ sync_cache_file' = IF saved THEN r.synced_jobs ELSE sync_cache_file

\* NotionSync() loads the ids of the file, cleanup_old_cache clears them when the file
\* is old, and sync_jobs(final_jobs) runs with the ids left
NotionSyncRuns ==
    /\ main.pc = "notion"
    /\ \E loaded \in {{}, sync_cache_file} :
       \E oracle \in [1..Len(NewJobs(main.final_jobs, loaded)) -> Oracles] :
       \E saved \in BOOLEAN :
           AfterSync(sync_jobs(main.final_jobs, NewJobs(main.final_jobs, loaded), loaded,
                               pages, oracle), saved)
    /\ sync_calls' = sync_calls + 1
    /\ main' = Completed(main)
    /\ UNCHANGED <<adapters, scrapeVars, geoVars, mergeVars, recencyVars>>

NextMain ==
    \/ ImportScrapers
    \/ CreateScrapers
    \/ \E i \in 1..Len(Platforms) : ScrapeAllSettles(i)
    \/ GatherReturns
    \/ Merge
    \/ SaveToCsv
    \/ NotionUnavailable
    \/ NotionSyncRuns

\* one run of job_aggregator.py
SpecMain == InitMain /\ [][NextMain]_vars

(***************************************************************************)
(* Properties of scrape_all and of the adapters.                           *)
(***************************************************************************)
\* the scrape_company calls that have started and not finished
InFlight == {c \in Companies : task[c].pc = "running"}

\* C1: at every moment at most max_concurrent scrape_company calls have started and
\* not yet returned or raised
C1_BoundedConcurrency == Cardinality(InFlight) <= MaxConcurrent

\* the semaphore is exhausted: as many calls in flight as it allows
C1_Witness ==
    /\ Cardinality(InFlight) = (IF MaxConcurrent < NumCompanies THEN MaxConcurrent ELSE NumCompanies)
    /\ \A c \in Companies : task[c].pc = "pending" => sem = 0

\* every posting of jobs occurs in all_jobs
ContainsAll(all_jobs, jobs) ==
    \A i \in 1..Len(jobs) : \E k \in 1..Len(all_jobs) : all_jobs[k] = jobs[i]

\* C3: whichever scrape_company calls raise or time out, scrape_all returns normally; every
\* task has run to its end (none is cancelled), a failing organization contributes the
\* empty list, and the result contains every posting the other calls returned
C3_FailureIsolation ==
    /\ ret.kind \in {"pending", "return"}
    /\ ret.kind = "return" =>
          \A c \in Companies :
             /\ task[c].pc = "done"
             /\ task[c].inner.kind = "raise" => task[c].result = Return(<<>>)
             /\ task[c].inner.kind = "return" => ContainsAll(ret.value, task[c].inner.value)

\* scrape_all has returned postings although a call raised and another timed out
C3_Witness ==
    /\ ret.kind = "return"
    /\ ret.value # <<>>
    /\ \E c, d \in Companies :
          /\ task[c].inner = Raise("Exception")
          /\ task[d].inner = Raise("TimeoutError")

\* the organizations whose adapter call has finished
Scraped == {c \in Companies : impl \in {"Ashby", "Greenhouse"} /\ task[c].pc = "done"}

\* the postings of a payload that pass the keyword filter and are judged US, normalized
ExpectedJobs(c) ==
    filter_and_collect_stats(FormatJobs(impl, filter_fde_jobs(task[c].resp.postings), companies[c]))

\* C4: for a 200 answer with a parseable payload scrape_company returns exactly the
\* normalized postings that pass the keyword filter and are classified US
C4_ReturnsUsPostings ==
    \A c \in Scraped :
        ~IsFailure(companies[c], task[c].resp) => task[c].inner = Return(ExpectedJobs(c))

\* C5: scrape_company never raises, and for every failure it returns the empty list
C5_NeverRaises ==
    \A c \in Scraped :
        /\ task[c].inner.kind = "return"
        /\ IsFailure(companies[c], task[c].resp) => task[c].inner.value = <<>>

\* adapter calls have met a timeout, an undecodable body and a missing configuration key
C5_Witness ==
    \E c, d, e \in Scraped :
        /\ task[c].resp.net = "timeout"
        /\ task[d].resp.body = "bad_json"
        /\ ~companies[e].has_slug
        /\ \A x \in {c, d, e} : task[x].inner = Return(<<>>)


(***************************************************************************)
(* Properties of the geocoding rate limiter.                               *)
(***************************************************************************)
\* C2: any two geocoding requests made through the shared LocationFilter are issued at
\* least 1.1 seconds apart, however the concurrent callers interleave
C2_MinimumSpacing ==
    \A i, j \in 1..Len(api_calls) : i < j => api_calls[j].time - api_calls[i].time >= RateLimit

(***************************************************************************)
(* Properties of the recency filter.                                       *)
(***************************************************************************)
\* the posting at position i of the argument is in the returned list
KeptRecent(i) == \E k \in 1..Len(recent.value) : recent.value[k] = dated_jobs[i]

\* the published_date of the posting at position i, "" when the key is absent
PublishedDate(i) == Get(dated_jobs[i], "published_date", "")

\* C9: at any time of day, a posting dated the calendar day exactly 365 days before now
\* is kept and a posting dated one day further back is dropped
C9_BoundaryDay ==
    recent.kind = "return" =>
        \A i \in 1..Len(dated_jobs) :
            /\ PublishedDate(i) = Isoformat(wall_clock.days - 365) => KeptRecent(i)
            /\ PublishedDate(i) = Isoformat(wall_clock.days - 366) => ~KeptRecent(i)

\* the date is missing, empty or made of blanks only
NoPublishedDate(i) == PublishedDate(i) = "" \/ strip(PublishedDate(i)) = ""

\* C10 as stated: a posting whose published_date is missing, empty, blank or matches none of
\* the five formats is kept; a posting is dropped only when its date matches a format and
\* is older than now minus 365 days
C10_FailOpen ==
    recent.kind = "return" =>
        \A i \in 1..Len(dated_jobs) :
            LET published_date == FirstFormat(PublishedDate(i))
            IN  /\ (NoPublishedDate(i) \/ ~published_date.ok) => KeptRecent(i)
                /\ ~KeptRecent(i) =>
                       published_date.ok /\ ~NotBefore(published_date, one_year_ago(wall_clock))

\* C10 amended: a posting whose published_date is missing, empty, blank or whose text before
\* the first "T" matches none of the five formats is kept; a posting is dropped only when
\* the text before the first "T" of its date parses and is older than now minus 365 days
C10_FailOpenBeforeT ==
    recent.kind = "return" =>
        \A i \in 1..Len(dated_jobs) :
            LET published_date == FirstFormat(SplitT0(PublishedDate(i)))
            IN  /\ (NoPublishedDate(i) \/ ~published_date.ok) => KeptRecent(i)
                /\ ~KeptRecent(i) =>
                       /\ ~NoPublishedDate(i)
                       /\ published_date.ok
                       /\ ~NotBefore(published_date, one_year_ago(wall_clock))

\* the filter has returned for a list with a posting whose date does not parse, which it
\* kept, and a posting whose date parses and is too old, which it dropped
C10_Witness ==
    /\ recent.kind = "return"
    /\ \E i, k \in 1..Len(dated_jobs) :
           /\ ~NoPublishedDate(i)
           /\ ~FirstFormat(SplitT0(PublishedDate(i))).ok
           /\ KeptRecent(i)
           /\ ~KeptRecent(k)

(***************************************************************************)
(* Properties of merge_and_deduplicate.                                    *)
(***************************************************************************)
\* the postings of a list, as a set
Range(jobs) == {jobs[i] : i \in 1..Len(jobs)}

\* C6: merge_and_deduplicate applied to its own output, with the cache the first run left,
\* returns the same postings with the same fields: none is dropped, deduplicated or
\* consolidated
C6_Idempotent ==
    Len(merged) = 2 =>
        /\ Range(merged[2].output) = Range(merged[1].output)
        /\ Len(merged[2].output) = Len(merged[1].output)

\* the lower-cased (company_name, role_name) of a posting
PairOf(j) == <<lower(j.company_name), lower(j.role_name)>>

\* the lower-cased (company_name, role_name, location) of a posting
TripleOf(j) == <<lower(j.company_name), lower(j.role_name), lower(j.location)>>

\* the "; "-join of the distinct non-empty trimmed locations of a set of postings, taken in
\* ascending order of the original location strings
JoinedLocations(group) ==
    LET sorted == SortStrings({j.location : j \in group})
    IN  Join(Distinct([i \in 1..Len(sorted) |-> strip(sorted[i])]))

\* C7: for every group of more than one posting that survive exact-duplicate removal and
\* share the lower-cased (company_name, role_name), the output has exactly one posting for
\* the group, and its location is the "; "-join of the distinct non-empty trimmed locations
\* of the group in ascending order of the original location strings
C7_ConsolidatedLocation ==
    \A n \in 1..Len(merged) :
        LET run == merged[n]
        IN  \A j \in Range(run.unique_jobs) :
                LET group == {g \in Range(run.unique_jobs) : PairOf(g) = PairOf(j)}
                    out == {k \in 1..Len(run.output) : PairOf(run.output[k]) = PairOf(j)}
                IN  Cardinality(group) > 1 =>
                        /\ Cardinality(out) = 1
                        /\ \A k \in out : run.output[k].location = JoinedLocations(group)

\* C8: exact-duplicate removal keeps, for every lower-cased (company_name, role_name,
\* location) present in its input, exactly one posting, the first one with that triple in
\* input order; afterwards no two postings share a lower-cased triple
C8_FirstOfEachTriple ==
    \A n \in 1..Len(merged) :
        LET input == merged[n].recent_jobs
            kept == merged[n].unique_jobs
        IN  \A i \in 1..Len(input) :
                LET first == CHOOSE k \in 1..i :
                                 /\ TripleOf(input[k]) = TripleOf(input[i])
                                 /\ \A m \in 1..(k - 1) : TripleOf(input[m]) # TripleOf(input[i])
                    same == {k \in 1..Len(kept) : TripleOf(kept[k]) = TripleOf(input[i])}
                IN  /\ Cardinality(same) = 1
                    /\ \A k \in same : kept[k] = input[first]

(***************************************************************************)
(* Properties of the classifier.                                           *)
(***************************************************************************)
\* the location of the latest return is neither empty nor blank
ReturnedForLocation ==
    last_return.mode # "none" /\ last_return.location # "" /\ strip(last_return.location) # ""

\* the key under which the location of the latest return is cached
ReturnedKey == lower(strip(last_return.location))

\* C11: when the geocoding call made for a location that is not cached and matches no
\* pattern fails, the async classifier returns false and stores false under the
\* lower-cased trimmed location
C11_GeocodeFailureIsFalse ==
    (last_return.mode = "async" /\ last_return.answer = "fail") =>
        /\ last_return.verdict = "false"
        /\ ReturnedKey \in DOMAIN cache
        /\ cache[ReturnedKey] = FALSE

\* the geocoding call for " ZUG " failed and the call has returned
C11_Witness ==
    /\ last_return.mode = "async"
    /\ last_return.answer = "fail"
    /\ last_return.location = " ZUG "
    /\ "zug" \in DOMAIN cache

\* the keys of the classified locations that match a non-US pattern, a US pattern
NonUsKeys == {k \in {lower(strip(l)) : l \in GeoLocations} : non_us_patterns(k)}
UsKeys == {k \in {lower(strip(l)) : l \in GeoLocations} : us_patterns(k)}

\* C12: a location that is not served from the cache and matches a non-US pattern is
\* classified not US even if it matches a US pattern too, and a location is classified US
\* by pattern only if it matches a US pattern and no non-US pattern
C12_NonUsPriority ==
    ReturnedForLocation =>
        /\ (last_return.step # "cache" /\ ReturnedKey \in NonUsKeys) =>
               last_return.step = "pattern" /\ last_return.verdict = "false"
        /\ (last_return.step = "pattern" /\ last_return.verdict = "true") =>
               ReturnedKey \in UsKeys \ NonUsKeys

\* "Paris, TX" matches a non-US pattern and a US pattern, and was classified by pattern
C12_Witness ==
    /\ last_return.location = "Paris, TX"
    /\ last_return.step = "pattern"
    /\ "paris, tx" \in NonUsKeys \cap UsKeys

\* C13: a call of is_us_location_sync returns the verdict and leaves the cache that the
\* async is_us_location leaves from the same cache when its geocoder fails, and it issues
\* no geocoding request
C13_SyncIsAsyncWithoutGeocoder ==
    [][(last_return'.mode = "sync" /\ last_return' # last_return) =>
          LET r == is_us_location(last_return'.location, cache, "none")
          IN  /\ last_return'.verdict = (IF r.verdict THEN "true" ELSE "false")
              /\ cache' = r.cache
              /\ api_calls' = api_calls
              /\ last_api_call' = last_api_call]_vars

\* the sync classifier met a location that is not cached and that no pattern knows
C13_Witness ==
    /\ last_return.mode = "sync"
    /\ last_return.step = "fallback"
    /\ last_return.location = "Lund"

\* C17: after a call of the async or the sync classifier on a location that is neither
\* empty nor blank, the cache holds lower-case(trim(location)) with the returned verdict
C17_VerdictCached ==
    ReturnedForLocation =>
        /\ ReturnedKey \in DOMAIN cache
        /\ cache[ReturnedKey] = (last_return.verdict = "true")

\* the async classifier geocoded " ZUG " as a US address after the sync classifier or
\* a pattern had filled other keys
C17_Witness ==
    /\ last_return.mode = "async"
    /\ last_return.step = "geocode"
    /\ last_return.location = " ZUG "
    /\ last_return.verdict = "true"
    /\ Cardinality(DOMAIN cache) > 1

\* C18: no step of any classifier call, async or sync, removes a key from the cache
C18_CacheGrows == [][DOMAIN cache \subseteq DOMAIN cache']_vars

\* every classified location is cached and a geocoding request was made
C18_Witness ==
    /\ DOMAIN cache = {lower(strip(l)) : l \in {g \in GeoLocations : strip(g) # ""}}
    /\ api_calls # <<>>

(***************************************************************************)
(* Properties of the join of scrape_all.                                   *)
(***************************************************************************)
RECURSIVE InConfigurationOrder(_)
\* the lists that the tasks of the organizations from c on returned, one after the other
InConfigurationOrder(c) ==
    IF c > Len(companies) THEN <<>>
    ELSE (IF task[c].result.kind = "return" THEN task[c].result.value ELSE <<>>)
             \o InConfigurationOrder(c + 1)

\* C14: scrape_all returns only after the task of every organization has settled, and its
\* result is the concatenation of the results of the organizations in configuration
\* order, in whichever order the tasks completed
C14_JoinAll ==
    ret.kind = "return" =>
        /\ \A c \in Companies : task[c].pc = "done"
        /\ ret.value = InConfigurationOrder(1)

\* scrape_all has returned the postings of two organizations whose tasks completed in
\* the reverse of the configuration order
C14_Witness ==
    /\ ret.kind = "return"
    /\ \E c, d \in Companies :
          /\ c < d
          /\ task[c].seq > task[d].seq
          /\ task[c].result.value # <<>>
          /\ task[d].result.value # <<>>
          /\ task[c].result.value # task[d].result.value

(***************************************************************************)
(* Properties of merge_and_deduplicate as a function of its arguments.     *)
(***************************************************************************)
\* C19: a run of merge_and_deduplicate changes neither its input postings nor the
\* classifier cache
C19_PureMerge ==
    [][(merged = <<>> /\ merged' # <<>>) =>
          /\ scraped_jobs' = scraped_jobs
          /\ cache' = cache]_vars

\* C19 as amended: a run of merge_and_deduplicate leaves its input postings as they
\* were and keeps every verdict that was cached, adding only verdicts of locations not
\* yet cached, and a run on the same postings at the same time with the cache that the
\* first run left returns the same output
C19_CacheOnlyGrows ==
    [][(merged = <<>> /\ merged' # <<>>) =>
          /\ scraped_jobs' = scraped_jobs
          /\ \A k \in DOMAIN cache : k \in DOMAIN cache' /\ cache'[k] = cache[k]
          /\ merge_and_deduplicate(scraped_jobs.ashby, scraped_jobs.greenhouse,
                                   scraped_jobs.lever, cache', wall_clock).output
                 = merged'[1].output]_vars

\* a run met the location "Zug", whose verdict the scrapers had left in the cache, and
\* cached the verdicts of other locations
C19_Witness ==
    /\ Len(merged) = 1
    /\ \E j \in Range(scraped_jobs.greenhouse) : j.location = "Zug"
    /\ "zug" \in DOMAIN cache
    /\ cache["zug"]
    /\ DOMAIN cache # {"zug"}

(***************************************************************************)
(* Properties of the record sync.                                          *)
(***************************************************************************)
\* C20: whatever calls of sync_jobs were made, the Notion database holds at most one
\* page for a given job link
C20_OnePagePerLink == \A job_link \in DOMAIN pages : pages[job_link] <= 1

(***************************************************************************)
(* Properties of job_aggregator.main.                                      *)
(***************************************************************************)
\* C15: whatever fails in scraping, classification or the merge pipeline, main does not
\* end the program with an error status
C15_NoFatalError == main.exit_status # "1"

\* C16: when the program is over, the scrape_all of each of the three platforms has
\* run, and the merge was handed, for each platform, the postings its scrape_all
\* returned, unchanged, or the empty list if its scrape_all raised
C16_PlatformsIsolated ==
    main.pc \in {"done", "exited"} =>
        /\ Len(main.results) = Len(Platforms)
        /\ Len(main.merge_args) = Len(Platforms)
        /\ \A i \in 1..Len(Platforms) :
              /\ main.results[i].kind \in {"return", "raise"}
              /\ main.results[i].kind = "raise" => main.merge_args[i] = <<>>
              /\ main.results[i].kind = "return" =>
                     main.merge_args[i] = main.results[i].value

(***************************************************************************)
(* Properties of the order of the steps of the classifier.                 *)
(***************************************************************************)
\* what the pattern tables say of a key
PatternVerdict(key) ==
    IF key \in DOMAIN PatternTable THEN PatternTable[key] ELSE PatternMatchSearch(key)

\* the tasks that stand in the asyncio.sleep of _geocode_location for the location
SleepingFor(location) == {p \in Callers : caller[p].pc = "sleeping" /\ caller[p].location = location}

\* C21: a task enters _geocode_location for a location only when, at that moment of
\* its call, the key of the location is not cached and no pattern matches it; every
\* geocoding request is made for such a call; and a call that finds the key cached
\* returns the cached verdict and makes no request
C21_GeocodeLastResort ==
    [][/\ \A p \in Callers :
             (caller[p].pc = "idle" /\ caller'[p].pc = "sleeping") =>
                 /\ LocationKey(caller'[p].location) \notin DOMAIN cache
                 /\ PatternVerdict(LocationKey(caller'[p].location)) = "none"
       /\ api_calls' # api_calls =>
             /\ PatternVerdict(LocationKey(last_return'.location)) = "none"
             /\ \/ LocationKey(last_return'.location) \notin DOMAIN cache
                \/ \E p \in SleepingFor(last_return'.location) : caller'[p].pc = "idle"
       /\ (/\ last_return' # last_return
           /\ caller' = caller
           /\ strip(last_return'.location) # ""
           /\ LocationKey(last_return'.location) \in DOMAIN cache) =>
             /\ last_return'.step = "cache"
             /\ last_return'.verdict =
                    (IF cache[LocationKey(last_return'.location)] THEN "true" ELSE "false")
             /\ api_calls' = api_calls
             /\ cache' = cache]_vars

\* a geocoding request was made, and the latest call found "Zug" in the cache
C21_Witness ==
    /\ api_calls # <<>>
    /\ last_return.step = "cache"
    /\ last_return.mode = "async"
    /\ last_return.location = "Zug"

(***************************************************************************)
(* Properties of the order of the steps of merge_and_deduplicate.          *)
(***************************************************************************)
\* the posting is older than the cutoff of the recency filter at the time of the run
OlderThanCutoff(j) == ~KeepRecent(Get(j, "published_date", ""), wall_clock)

\* C22: if the input of a run holds two postings with the same lower-cased
\* (company_name, role_name, location) of which the first is older than the recency
\* cutoff and the second passes the location and the recency filter, the output of the
\* run holds a posting with that lower-cased (company_name, role_name)
C22_FilteredNeverSuppresses ==
    \A n \in 1..Len(merged) :
        \A i, j \in 1..Len(merged[n].all_jobs) :
            (/\ i < j
             /\ TripleOf(merged[n].all_jobs[i]) = TripleOf(merged[n].all_jobs[j])
             /\ OlderThanCutoff(merged[n].all_jobs[i])
             /\ merged[n].all_jobs[j] \in Range(merged[n].recent_jobs)) =>
                \E o \in Range(merged[n].output) : PairOf(o) = PairOf(merged[n].all_jobs[j])

(***************************************************************************)
(* Properties of the consolidation step of deduplicate_jobs.               *)
(***************************************************************************)
\* the postings that survive exact-duplicate removal and that deduplicate_jobs groups
\* with j
GroupOf(kept, j) == {g \in Range(kept) : role_dedup_key(g) = role_dedup_key(j)}

\* the posting of a set whose location string is the least
FirstByLocation(group) ==
    CHOOSE b \in group : \A g \in group \ {b} : StrLess(b.location, g.location)

\* the postings of a set that have a job link that is not blank
Linked(group) == {g \in group : strip(g.job_link) # ""}

C24_SingletonUnchanged ==
    \A n \in 1..Len(merged) :
        \A j \in Range(merged[n].unique_jobs) :
            {g \in Range(merged[n].unique_jobs) : PairOf(g) = PairOf(j)} = {j} =>
                j \in Range(merged[n].output)

(***************************************************************************)
(* Properties of the classifier on a location without text.                *)
(***************************************************************************)
\* C25: a call of the async or of the sync classifier on an empty or blank location
\* returns true, makes no geocoding request and leaves the cache and the time of the
\* last request as they were
C25_EmptyLocation ==
    [][(/\ last_return' # last_return
        /\ strip(last_return'.location) = "") =>
          /\ last_return'.verdict = "true"
          /\ api_calls' = api_calls
          /\ cache' = cache
          /\ last_api_call' = last_api_call]_vars

\* the sync classifier returned for a blank location after a geocoding request was
\* made and verdicts were cached
C25_Witness ==
    /\ last_return.mode = "sync"
    /\ last_return.location = "  "
    /\ last_return.verdict = "true"
    /\ api_calls # <<>>
    /\ cache # EmptyCache

(***************************************************************************)
(* Properties of the classifier under concurrent callers.                  *)
(***************************************************************************)
\* C26: once the cache holds a verdict under a key, no step of any classifier call
\* changes the verdict under that key
C26_VerdictStable ==
    [][\A k \in DOMAIN cache : k \in DOMAIN cache' /\ cache'[k] = cache[k]]_vars

\* C28: no two geocoding requests of a run are made for the same lower-cased trimmed
\* location key
C28_OneRequestPerKey ==
    \A i, j \in 1..Len(api_calls) : i < j => api_calls[i].key # api_calls[j].key

(***************************************************************************)
(* Properties of the two location filters of a run.                        *)
(***************************************************************************)
\* C27: when the merge runs after every adapter task has settled, its location filter
\* keeps every posting that the adapters accepted as US
C27_MergeKeepsAccepted ==
    Len(merged) >= 1 => merged[1].us_jobs = merged[1].all_jobs

(***************************************************************************)
(* Termination of scrape_all.                                              *)
(***************************************************************************)
\* a task that leaves "async with semaphore", on a return or on a raise of its
\* scrape_company, gives its permit back
PermitReleased ==
    \A c \in Companies :
       (task[c].pc = "running" /\ task'[c].pc = "done") => sem' = sem + 1

\* C29: when every scrape_company call returns or raises, a task that settles releases
\* its permit on both paths, the task of every organization acquires a permit and runs,
\* and scrape_all returns with every permit free
C29_ScrapeAllTerminates ==
    /\ [][PermitReleased]_vars
    /\ \A c \in 1..NumCompanies :
          (c \in Companies /\ task[c].pc = "pending")
             ~> (c \in Companies /\ task[c].pc = "running")
    /\ <>(ret.kind = "return" /\ sem = MaxConcurrent)

\* scrape_all has returned with every permit free after more organizations than
\* permits ran, one call raising and one returning
C29_Witness ==
    /\ ret.kind = "return"
    /\ sem = MaxConcurrent
    /\ Len(companies) > MaxConcurrent
    /\ \E c, d \in Companies :
          /\ task[c].inner.kind = "raise"
          /\ task[d].inner.kind = "return"

(***************************************************************************)
(* The counters of sync_jobs.                                              *)
(***************************************************************************)
\* the turns of the loop over new_jobs made for the derived id
TurnsFor(log, unique_job_id) ==
    {k \in 1..Len(log.processed) : log.processed[k].unique_job_id = unique_job_id}

\* C30: a call of sync_jobs returns total = len(jobs) = new + existing + cached_skip +
\* errors; for a posting whose derived id was in the skip-cache at the call it sends
\* neither a query nor a create; and the derived id of every posting counted as new or
\* existing is in the skip-cache when it returns
C30_CountersPartition ==
    [][sync_calls' = sync_calls + 1 =>
          /\ sync_stats'.total = Len(sync_log'.jobs)
          /\ sync_stats'.total = sync_stats'.new + sync_stats'.existing
                                   + sync_stats'.cached_skip + sync_stats'.errors
          /\ \A i \in 1..Len(sync_log'.jobs) :
                generate_job_id(sync_log'.jobs[i]) \in synced_jobs =>
                   \A k \in TurnsFor(sync_log', generate_job_id(sync_log'.jobs[i])) :
                      /\ ~sync_log'.processed[k].query
                      /\ ~sync_log'.processed[k].create
          /\ \A k \in 1..Len(sync_log'.processed) :
                sync_log'.processed[k].counter \in {"new", "existing"} =>
                   sync_log'.processed[k].unique_job_id \in synced_jobs']_vars

\* a call of sync_jobs on two postings has skipped one whose id was in the skip-cache
\* and has found the other in the database
C30_Witness ==
    /\ sync_stats.total = 2
    /\ sync_stats.cached_skip = 1
    /\ sync_stats.existing = 1
    /\ Len(sync_log.processed) = 1
    /\ sync_log.processed[1].unique_job_id \in synced_jobs

====
